---- MODULE Spec2Model ----
(***************************************************************************)
(* A model of the umbi codec and data-model layer: the binary encoders and *)
(* decoders of umbi.binary, the CSR utilities of umbi.vectors, the vector  *)
(* codec, the struct codec and the ATS <-> umbfile conversion.             *)
(*                                                                         *)
(* Python integers are unbounded, so an integer is modelled as a sign and  *)
(* a little-endian sequence of base-256 digits (BigInt below); bytes are   *)
(* sequences of numbers in 0..255.  A call that raises is modelled by a    *)
(* result whose err field names the exception.                             *)
(***************************************************************************)
EXTENDS Integers, Sequences, FiniteSets, TLC

VARIABLES
    pc,      \* position of the modelled call sequence
    arg,     \* the input handed to the encoder / forward conversion
    enc,     \* what the encoder / forward conversion returned (or raised)
    dec      \* what the decoder / backward conversion returned (or raised)

vars == <<pc, arg, enc, dec>>

\* ------------------------------------------------------------------ results

Ok(v) == [err |-> "", val |-> v]
Raise(e) == [err |-> e, val |-> <<>>]
None == [none |-> TRUE]

\* a local variable: the rest of the computation, F, with v under a name
With(v, F(_)) == F(v)

\* the rest of the computation, F, after a call that returned r.val; a call
\* that raised ends the computation with its exception
Then(r, F(_)) == IF r.err # "" THEN r ELSE F(r.val)

\* ------------------------------------------------- Python int (unbounded)

Max(a, b) == IF a >= b THEN a ELSE b

Min(a, b) == IF a <= b THEN a ELSE b

Zeros(n) == [i \in 1..n |-> 0]

\* a magnitude without its most significant zero digits
MagNorm(m) ==
    IF m = <<>> \/ m[Len(m)] # 0 THEN m
    ELSE SubSeq(m, 1, Cardinality({i \in 1..Len(m) : \E j \in i..Len(m) : m[j] # 0}))

Digit(m, i) == IF i <= Len(m) THEN m[i] ELSE 0

\* comparison of the digits 1..i of a and b, digit i being the most significant
MagCmpFrom(a, b, i) ==
    IF \A j \in 1..i : a[j] = b[j] THEN 0
    ELSE IF \E j \in 1..i : a[j] < b[j] /\ \A k \in (j + 1)..i : a[k] = b[k] THEN -1
    ELSE 1

\* comparison of two normalised magnitudes: -1, 0 or 1
MagCmp(a, b) ==
    IF Len(a) < Len(b) THEN -1
    ELSE IF Len(a) > Len(b) THEN 1
    ELSE MagCmpFrom(a, b, Len(a))

\* the carry into digit i of a + b
MagCarry(a, b, i) ==
    \E j \in 1..(i - 1) :
        /\ Digit(a, j) + Digit(b, j) > 255
        /\ \A k \in (j + 1)..(i - 1) : Digit(a, k) + Digit(b, k) = 255

MagAdd(a, b) ==
    MagNorm([i \in 1..(Max(Len(a), Len(b)) + 1) |->
                (Digit(a, i) + Digit(b, i) + (IF MagCarry(a, b, i) THEN 1 ELSE 0)) % 256])

\* the borrow from digit i of a - b
MagBorrow(a, b, i) ==
    \E j \in 1..(i - 1) :
        /\ a[j] < Digit(b, j)
        /\ \A k \in (j + 1)..(i - 1) : a[k] = Digit(b, k)

\* a - b for magnitudes with a >= b
MagSub(a, b) ==
    MagNorm([i \in 1..Max(Len(a), Len(b)) |->
                (256 + a[i] - Digit(b, i) - (IF MagBorrow(a, b, i) THEN 1 ELSE 0)) % 256])

\* the magnitude of 2^k
Pow2Mag(k) == Zeros(k \div 8) \o <<2 ^ (k % 8)>>

RECURSIVE BitLen8(_)
BitLen8(x) == IF x = 0 THEN 0 ELSE 1 + BitLen8(x \div 2)

\* int.bit_length() of a magnitude
MagBitLength(m) == IF m = <<>> THEN 0 ELSE 8 * (Len(m) - 1) + BitLen8(m[Len(m)])

MagBit(m, i) == (Digit(m, (i - 1) \div 8 + 1) \div (2 ^ ((i - 1) % 8))) % 2

\* m * k for a magnitude m and k in 0..255: the low bytes of the digit
\* products plus their high bytes one place up
MagMul(m, k) ==
    IF k = 0 THEN <<>>
    ELSE MagAdd(MagNorm([i \in 1..Len(m) |-> (m[i] * k) % 256]),
                MagNorm(<<0>> \o [i \in 1..Len(m) |-> (m[i] * k) \div 256]))

\* the digits i, i - 1 and i - 2 of m as a number
MagTop(m, i) ==
    Digit(m, i) * 65536 + (IF i > 1 THEN Digit(m, i - 1) * 256 ELSE 0)
    + (IF i > 2 THEN Digit(m, i - 2) ELSE 0)

\* the largest d with b * d <= r, for r < 256 * b: exact from the numbers
\* when b has at most two digits, else the candidate between the bounds that
\* the leading digits of r and b give
MagQuotientDigit(r, b) ==
    IF Len(b) <= 2 THEN MagTop(r, 3) \div MagTop(b, 3)
    ELSE (MagTop(r, Len(b) + 1) \div (MagTop(b, Len(b) + 1) + 1))
         + Cardinality({k \in ((MagTop(r, Len(b) + 1) \div (MagTop(b, Len(b) + 1) + 1)) + 1)
                             ..Min((MagTop(r, Len(b) + 1) + 1) \div MagTop(b, Len(b) + 1), 255) :
                           MagCmp(MagMul(b, k), r) <= 0})

\* r * 256 + x
MagShift(r, x) == MagNorm(<<x>> \o r)

\* r - b * d for the quotient digit d of r and b
MagModDigit(r, b) == MagSub(r, MagMul(b, MagQuotientDigit(r, b)))

RECURSIVE MagDivModFrom(_, _, _, _, _)
\* the digits i..1 of a are still to be brought down; q and r are the
\* quotient and the remainder of the digits above them (the comparisons of
\* the lengths have q and r computed before the next digit is)
MagDivModFrom(a, b, i, q, r) ==
    IF i = 0 \/ Len(r) < 0 \/ Len(q) < 0 THEN [q |-> MagNorm(q), r |-> r]
    ELSE MagDivModFrom(a, b, i - 1, <<MagQuotientDigit(MagShift(r, a[i]), b)>> \o q,
                       MagModDigit(MagShift(r, a[i]), b))

RECURSIVE MagDivModSmallFrom(_, _, _, _, _)
\* the same for a divisor b < 65536 and the remainder r, both as numbers
MagDivModSmallFrom(a, b, i, q, r) ==
    IF i = 0 \/ r < 0 \/ Len(q) < 0 THEN [q |-> MagNorm(q), r |-> MagNorm(<<r % 256, r \div 256>>)]
    ELSE MagDivModSmallFrom(a, b, i - 1, <<(r * 256 + a[i]) \div b>> \o q, (r * 256 + a[i]) % b)

\* quotient and remainder of magnitudes, b # 0 (long division in base 256)
MagDivMod(a, b) ==
    IF MagCmp(a, b) < 0 THEN [q |-> <<>>, r |-> a]
    ELSE IF b = <<1>> THEN [q |-> a, r |-> <<>>]
    ELSE IF Len(b) <= 2 THEN MagDivModSmallFrom(a, MagTop(b, 3), Len(a), <<>>, 0)
    ELSE MagDivModFrom(a, b, Len(a), <<>>, <<>>)

RECURSIVE MagGcd(_, _)
MagGcd(a, b) == IF b = <<>> THEN a ELSE MagGcd(b, MagDivMod(a, b).r)

Big(neg, mag) == [neg |-> neg /\ mag # <<>>, mag |-> mag]

RECURSIVE NatMag(_)
NatMag(n) == IF n = 0 THEN <<>> ELSE <<n % 256>> \o NatMag(n \div 256)

\* a small integer as a Python int
BigOfInt(n) == IF n < 0 THEN Big(TRUE, NatMag(-n)) ELSE Big(FALSE, NatMag(n))

RECURSIVE MagToNat(_)
MagToNat(m) == IF m = <<>> THEN 0 ELSE m[1] + 256 * MagToNat(Tail(m))

\* a Python int known to be small, as a number
IntOfBig(x) == IF x.neg THEN -MagToNat(x.mag) ELSE MagToNat(x.mag)

BigZero == Big(FALSE, <<>>)
BigOne == Big(FALSE, <<1>>)

BigNeg(x) == Big(~x.neg, x.mag)

BigAdd(x, y) ==
    IF x.neg = y.neg THEN Big(x.neg, MagAdd(x.mag, y.mag))
    ELSE IF MagCmp(x.mag, y.mag) >= 0 THEN Big(x.neg, MagSub(x.mag, y.mag))
    ELSE Big(y.neg, MagSub(y.mag, x.mag))

BigSub(x, y) == BigAdd(x, BigNeg(y))

\* x <= y
BigLe(x, y) ==
    IF x.neg /\ ~y.neg THEN TRUE
    ELSE IF ~x.neg /\ y.neg THEN FALSE
    ELSE IF x.neg THEN MagCmp(x.mag, y.mag) >= 0
    ELSE MagCmp(x.mag, y.mag) <= 0

\* 1 << k
BigShl1(k) == Big(FALSE, Pow2Mag(k))

\* int.bit_length()
bit_length(x) == MagBitLength(x.mag)

\* int.to_bytes(num_bytes, byteorder="little", signed=signed); OverflowError
\* when the value does not fit
to_bytes(x, num_bytes, signed) ==
    IF ~x.neg
    THEN IF bit_length(x) + (IF signed THEN 1 ELSE 0) <= 8 * num_bytes
            \/ (x.mag = <<>>)
         THEN Ok(x.mag \o Zeros(num_bytes - Len(x.mag)))
         ELSE Raise("OverflowError")
    ELSE IF signed /\ num_bytes > 0 /\ MagCmp(x.mag, Pow2Mag(8 * num_bytes - 1)) <= 0
         THEN With(MagSub(Pow2Mag(8 * num_bytes), x.mag),
                   LAMBDA m : Ok(m \o Zeros(num_bytes - Len(m))))
         ELSE Raise("OverflowError")

\* int.from_bytes(data, byteorder="little", signed=signed)
from_bytes(data, signed) ==
    IF signed /\ data # <<>> /\ data[Len(data)] >= 128
    THEN Big(TRUE, MagSub(Pow2Mag(8 * Len(data)), MagNorm(data)))
    ELSE Big(FALSE, MagNorm(data))

\* ------------------------------------------------------------ CommonType

\* the members of the CommonType enumeration, by value
FixedIntTypes == {"int16", "uint16", "int32", "uint32", "int64", "uint64"}

\* Enum member name of a CommonType member, as its sequence of characters
CommonTypeName(type) ==
    CASE type = "int16"  -> <<"I", "N", "T", "1", "6">>
      [] type = "uint16" -> <<"U", "I", "N", "T", "1", "6">>
      [] type = "int32"  -> <<"I", "N", "T", "3", "2">>
      [] type = "uint32" -> <<"U", "I", "N", "T", "3", "2">>
      [] type = "int64"  -> <<"I", "N", "T", "6", "4">>
      [] type = "uint64" -> <<"U", "I", "N", "T", "6", "4">>
      [] type = "int"    -> <<"I", "N", "T">>
      [] type = "uint"   -> <<"U", "I", "N", "T">>

\* str.startswith with a one-character prefix
startswith(name, ch) == Len(name) >= 1 /\ name[1] = ch

is_fixed_size_integer_type(type) == type \in FixedIntTypes

\* integer_type_signed: type.name.startswith("i")
integer_type_signed(type) == startswith(CommonTypeName(type), "i")

\* ---------------------------------------------------- umbi.binary.integers

\* a faulty variant of num_bits_for_integer that forgets the sign bit
num_bits_for_integer_no_sign_bit(value, signed, round_up) ==
    With(IF ~signed \/ ~value.neg THEN bit_length(value)
         ELSE bit_length(BigSub(BigNeg(value), BigOne)),
         LAMBDA num_bits :
             IF round_up /\ num_bits % 8 # 0 THEN num_bits + (8 - (num_bits % 8))
             ELSE num_bits)

num_bits_for_integer(value, signed, round_up) ==
    With(IF ~signed THEN bit_length(value)
         ELSE (IF ~value.neg THEN bit_length(value)
               ELSE bit_length(BigSub(BigNeg(value), BigOne))) + 1,
         LAMBDA num_bits :
             IF round_up /\ num_bits % 8 # 0 THEN num_bits + (8 - (num_bits % 8))
             ELSE num_bits)

num_bytes_for_integer(value, signed, round_up) ==
    With(num_bits_for_integer(value, signed, TRUE) \div 8,
         LAMBDA num_bytes :
             IF round_up /\ num_bytes % 8 # 0 THEN num_bytes + (8 - (num_bytes % 8))
             ELSE num_bytes)

num_bytes_for_fixed_size_integer(type) ==
    CASE type \in {"int16", "uint16"} -> 2
      [] type \in {"int32", "uint32"} -> 4
      [] type \in {"int64", "uint64"} -> 8

\* assert_integer_fits with num_bits given (callers holding num_bytes pass
\* num_bytes * 8, as the function itself computes): "" or the exception
assert_integer_fits(value, signed, num_bits) ==
    LET max_value == IF signed THEN BigSub(BigShl1(num_bits - 1), BigOne)
                     ELSE BigSub(BigShl1(num_bits), BigOne)
        min_value == IF signed THEN BigNeg(BigShl1(num_bits - 1)) ELSE BigZero
    IN  IF BigLe(min_value, value) /\ BigLe(value, max_value) THEN "" ELSE "ValueError"

integer_to_bytes(value, num_bytes, signed) ==
    With(assert_integer_fits(value, signed, num_bytes * 8),
         LAMBDA fits : IF fits # "" THEN Raise(fits) ELSE to_bytes(value, num_bytes, signed))

bytes_to_integer(data, signed) == from_bytes(data, signed)

fixed_size_integer_to_bytes(value, value_type) ==
    integer_to_bytes(value, num_bytes_for_fixed_size_integer(value_type),
                     integer_type_signed(value_type))

bytes_to_fixed_size_integer(data, value_type) ==
    IF Len(data) # num_bytes_for_fixed_size_integer(value_type)
    THEN Raise("AssertionError")
    ELSE Ok(bytes_to_integer(data, integer_type_signed(value_type)))

\* --------------------------------------------------- umbi.binary.rationals

\* fractions.Fraction(numerator, denominator): lowest terms, denominator > 0
Fraction(n, d) ==
    IF d.mag = <<>> THEN Raise("ZeroDivisionError")
    ELSE With(MagGcd(n.mag, d.mag),
              LAMBDA g :
                  Ok([numerator |-> Big(n.neg # d.neg,
                                        IF g = <<1>> THEN n.mag ELSE MagDivMod(n.mag, g).q),
                      denominator |-> Big(FALSE,
                                          IF g = <<1>> THEN d.mag ELSE MagDivMod(d.mag, g).q)]))

normalize_rational(value) ==
    IF value.denominator.neg
    THEN Fraction(BigNeg(value.numerator), BigNeg(value.denominator)).val
    ELSE value

num_bytes_for_rational(value) ==
    Max(num_bytes_for_integer(value.numerator, TRUE, TRUE),
        num_bytes_for_integer(value.denominator, FALSE, TRUE)) * 2

\* term_size = NoTermSize stands for the default term_size=None
NoTermSize == -1

rational_to_bytes(value0, term_size0) ==
    With(normalize_rational(value0), LAMBDA value :
    With(num_bytes_for_rational(value) \div 2, LAMBDA minimal_term_size :
    With(IF term_size0 = NoTermSize THEN minimal_term_size ELSE term_size0, LAMBDA term_size :
        IF term_size < minimal_term_size THEN Raise("ValueError")
        ELSE Then(integer_to_bytes(value.numerator, term_size, TRUE),
                  LAMBDA numerator_bytes :
             Then(integer_to_bytes(value.denominator, term_size, FALSE),
                  LAMBDA denominator_bytes :
                 Ok(numerator_bytes \o denominator_bytes))))))

bytes_to_rational(data) ==
    IF Len(data) % 2 # 0 THEN Raise("AssertionError")
    ELSE With(Len(data) \div 2, LAMBDA mid :
             Fraction(bytes_to_integer(SubSeq(data, 1, mid), TRUE),
                      bytes_to_integer(SubSeq(data, mid + 1, Len(data)), FALSE)))

\* ---------------------------------------------------- umbi.binary.booleans

RECURSIVE SumBitsMsbFirst(_, _, _)
\* a faulty variant of the byte sum that puts entry i + j at bit 7 - j
SumBitsMsbFirst(bitvector, i, j) ==
    IF j > 7 THEN 0
    ELSE (IF i + j < Len(bitvector) /\ bitvector[i + j + 1] THEN 2 ^ (7 - j) ELSE 0)
         + SumBitsMsbFirst(bitvector, i, j + 1)

RECURSIVE SumBits(_, _, _)
SumBits(bitvector, i, j) ==
    IF j > 7 THEN 0
    ELSE (IF i + j < Len(bitvector) /\ bitvector[i + j + 1] THEN 2 ^ j ELSE 0)
         + SumBits(bitvector, i, j + 1)

RECURSIVE BitvectorBytesFrom(_, _)
BitvectorBytesFrom(bitvector, i) ==
    IF i >= Len(bitvector) THEN <<>>
    ELSE <<SumBits(bitvector, i, 0)>> \o BitvectorBytesFrom(bitvector, i + 8)

bitvector_to_bytes(bitvector) == BitvectorBytesFrom(bitvector, 0)

bytes_to_bitvector(bytestring) ==
    [k \in 1..(8 * Len(bytestring)) |->
        (bytestring[(k - 1) \div 8 + 1] \div (2 ^ ((k - 1) % 8))) % 2 = 1]

\* ----------------------------------------------------- umbi.binary.strings

\* str.encode("utf-8") of one code point
Utf8Of(cp) ==
    IF cp < 128 THEN <<cp>>
    ELSE IF cp < 2048 THEN <<192 + (cp \div 64), 128 + (cp % 64)>>
    ELSE IF cp < 65536 THEN <<224 + (cp \div 4096), 128 + ((cp \div 64) % 64), 128 + (cp % 64)>>
    ELSE <<240 + (cp \div 262144), 128 + ((cp \div 4096) % 64),
           128 + ((cp \div 64) % 64), 128 + (cp % 64)>>

RECURSIVE string_to_bytes(_)
string_to_bytes(string) ==
    IF string = <<>> THEN <<>> ELSE Utf8Of(Head(string)) \o string_to_bytes(Tail(string))

IsCont(b, i) == i <= Len(b) /\ b[i] >= 128 /\ b[i] < 192

RECURSIVE bytes_to_string(_)
\* bytes.decode("utf-8"): the code points, or UnicodeDecodeError
bytes_to_string(b) ==
    IF b = <<>> THEN Ok(<<>>)
    ELSE LET l == b[1]
             n == IF l < 128 THEN 1 ELSE IF l >= 194 /\ l < 224 THEN 2
                  ELSE IF l >= 224 /\ l < 240 THEN 3
                  ELSE IF l >= 240 /\ l < 245 THEN 4 ELSE 0
             cp == CASE n = 1 -> l
                     [] n = 2 -> (l - 192) * 64 + (b[2] - 128)
                     [] n = 3 -> (l - 224) * 4096 + (b[2] - 128) * 64 + (b[3] - 128)
                     [] n = 4 -> (l - 240) * 262144 + (b[2] - 128) * 4096
                                 + (b[3] - 128) * 64 + (b[4] - 128)
             lo == CASE n = 1 -> 0 [] n = 2 -> 128 [] n = 3 -> 2048 [] n = 4 -> 65536
         IN  IF n = 0 \/ \E i \in 2..n : ~IsCont(b, i) THEN Raise("UnicodeDecodeError")
             ELSE IF cp < lo \/ cp > 1114111 \/ (cp >= 55296 /\ cp < 57344)
             THEN Raise("UnicodeDecodeError")
             ELSE LET rest == bytes_to_string(SubSeq(b, n + 1, Len(b)))
                  IN  IF rest.err # "" THEN rest ELSE Ok(<<cp>> \o rest.val)

\* umbi.binary.utils.split_bytes
split_bytes(bytestring, length) ==
    IF ~(length > 0) THEN Raise("AssertionError")
    ELSE IF ~(Len(bytestring) >= length) THEN Raise("AssertionError")
    ELSE Ok(<<SubSeq(bytestring, 1, length), SubSeq(bytestring, length + 1, Len(bytestring))>>)

string_pack(string) ==
    With(string_to_bytes(string), LAMBDA string_bytes :
        Then(fixed_size_integer_to_bytes(BigOfInt(Len(string_bytes)), "uint16"),
             LAMBDA prefix_bytes : Ok(prefix_bytes \o string_bytes)))

string_unpack(bytestring) ==
    Then(split_bytes(bytestring, 2), LAMBDA s1 :
        Then(split_bytes(s1[2], IntOfBig(bytes_to_integer(s1[1], FALSE))), LAMBDA s2 :
            Then(bytes_to_string(s2[1]), LAMBDA string : Ok(<<string, s2[2]>>))))

\* =================================================== the scalar codecs
\* Each behaviour of SpecScalar draws one input, applies the encoder to it and
\* then the decoder to what the encoder returned.

\* largest exponent k of the integer inputs 2^k, 2^k - 1, -2^k, -2^k - 1
MaxExp == 65
\* numerators are drawn at these exponents, denominators likewise
RationalExps == {0, 1, 2, 63, 64}
\* longest list of booleans
MaxBits == 9
\* longest string, in code points
MaxChars == 2
\* code points whose UTF-8 encodings have 1, 2, 3 and 4 bytes
Alphabet == {97, 233, 8364, 128512}
\* trailing bytes handed to string_unpack after a packed string
Rests == {<<>>, <<0>>, <<255, 1>>}

IntegersAt(k) ==
    {BigShl1(k), BigSub(BigShl1(k), BigOne), BigNeg(BigShl1(k)),
     BigSub(BigNeg(BigShl1(k)), BigOne)}

\* the integers drawn at the exponents exps
IntegerInputs(exps) == UNION {IntegersAt(k) : k \in exps}

\* the fractions n/d, in lowest terms, of the integers drawn at exps
RationalInputs(exps) ==
    {Fraction(n, d).val : n \in IntegerInputs(exps),
                          d \in {x \in IntegerInputs(exps) : ~x.neg /\ x.mag # <<>>}}

BitvectorInputs == UNION {[1..n -> BOOLEAN] : n \in 0..MaxBits}

StringInputs == UNION {[1..n -> Alphabet] : n \in 0..MaxChars}

ScalarInit ==
    /\ pc = "start"
    /\ enc = None
    /\ dec = None
    /\ \/ \E t \in FixedIntTypes, v \in IntegerInputs(0..MaxExp) :
            arg = [op |-> "integer", type |-> t, value |-> v, rest |-> <<>>]
       \/ \E q \in RationalInputs(RationalExps) :
            arg = [op |-> "rational", type |-> "rational", value |-> q, rest |-> <<>>]
       \/ \E b \in BitvectorInputs :
            arg = [op |-> "bitvector", type |-> "bool", value |-> b, rest |-> <<>>]
       \/ \E s \in StringInputs, r \in Rests :
            arg = [op |-> "string", type |-> "string", value |-> s, rest |-> r]

\* fixed_size_integer_to_bytes(value, type)
EncodeInteger ==
    /\ pc = "start" /\ arg.op = "integer"
    /\ enc' = fixed_size_integer_to_bytes(arg.value, arg.type)
    /\ pc' = "encoded"
    /\ UNCHANGED <<arg, dec>>

\* bytes_to_fixed_size_integer(data, type) on the encoder's bytes
DecodeInteger ==
    /\ pc = "encoded" /\ arg.op = "integer" /\ enc.err = ""
    /\ dec' = bytes_to_fixed_size_integer(enc.val, arg.type)
    /\ pc' = "decoded"
    /\ UNCHANGED <<arg, enc>>

\* rational_to_bytes(value) with term_size left at its default
EncodeRational ==
    /\ pc = "start" /\ arg.op = "rational"
    /\ enc' = rational_to_bytes(arg.value, NoTermSize)
    /\ pc' = "encoded"
    /\ UNCHANGED <<arg, dec>>

DecodeRational ==
    /\ pc = "encoded" /\ arg.op = "rational" /\ enc.err = ""
    /\ dec' = bytes_to_rational(enc.val)
    /\ pc' = "decoded"
    /\ UNCHANGED <<arg, enc>>

EncodeBitvector ==
    /\ pc = "start" /\ arg.op = "bitvector"
    /\ enc' = Ok(bitvector_to_bytes(arg.value))
    /\ pc' = "encoded"
    /\ UNCHANGED <<arg, dec>>

DecodeBitvector ==
    /\ pc = "encoded" /\ arg.op = "bitvector"
    /\ dec' = Ok(bytes_to_bitvector(enc.val))
    /\ pc' = "decoded"
    /\ UNCHANGED <<arg, enc>>

\* string_pack(s)
PackString ==
    /\ pc = "start" /\ arg.op = "string"
    /\ enc' = string_pack(arg.value)
    /\ pc' = "encoded"
    /\ UNCHANGED <<arg, dec>>

\* string_unpack(string_pack(s) + rest)
UnpackString ==
    /\ pc = "encoded" /\ arg.op = "string" /\ enc.err = ""
    /\ dec' = string_unpack(enc.val \o arg.rest)
    /\ pc' = "decoded"
    /\ UNCHANGED <<arg, enc>>

ScalarNext ==
    \/ EncodeInteger \/ DecodeInteger
    \/ EncodeRational \/ DecodeRational
    \/ EncodeBitvector \/ DecodeBitvector
    \/ PackString \/ UnpackString

SpecScalar == ScalarInit /\ [][ScalarNext]_vars

\* ------------------------------------------------ claims on the scalar codecs

SignedTypes == {"int16", "int32", "int64"}

\* v fits a two's-complement integer of n > 0 bits
FitsSigned(v, n) ==
    BigLe(BigNeg(BigShl1(n - 1)), v) /\ BigLe(v, BigSub(BigShl1(n - 1), BigOne))

\* v fits an unsigned integer of n >= 0 bits
FitsUnsigned(v, n) == ~v.neg /\ BigLe(v, BigSub(BigShl1(n), BigOne))

\* v lies in the range of the fixed-width type t
InTypeRange(v, t) ==
    IF t \in SignedTypes THEN FitsSigned(v, 8 * num_bytes_for_fixed_size_integer(t))
    ELSE FitsUnsigned(v, 8 * num_bytes_for_fixed_size_integer(t))

\* C4: for every fixed-width integer type T and every integer v, the encoder
\* raises and produces no bytes if v lies outside the range of T, and otherwise
\* produces exactly 2, 4 or 8 bytes (per T) that the decoder for T maps back
\* to v.
C4_FixedIntegerRoundTrip ==
    (arg.op = "integer" /\ pc # "start") =>
        IF InTypeRange(arg.value, arg.type)
        THEN /\ enc.err = ""
             /\ Len(enc.val) = num_bytes_for_fixed_size_integer(arg.type)
             /\ (pc = "decoded" => dec.err = "" /\ dec.val = arg.value)
        ELSE enc.err # "" /\ enc.val = <<>>

\* the encoder has rejected -1 as an int32
C4_InRangeRejected ==
    /\ arg.op = "integer" /\ arg.type = "int32" /\ arg.value = BigOfInt(-1)
    /\ pc = "encoded" /\ enc.err = "ValueError"

\* both terms of q fit term_size bytes, the numerator signed, the denominator
\* unsigned
BothTermsFit(q, term_size) ==
    /\ term_size > 0
    /\ FitsSigned(q.numerator, 8 * term_size)
    /\ FitsUnsigned(q.denominator, 8 * term_size)

\* C5: rational_to_bytes(q) without a term_size writes the numerator signed and
\* the denominator unsigned at one byte length term_size, the smallest
\* multiple of 8 bytes in which both fit; the output has 2 * term_size bytes
\* and bytes_to_rational of it returns q.
C5_RationalEncoding ==
    (arg.op = "rational" /\ pc # "start") =>
        /\ enc.err = ""
        /\ Len(enc.val) % 2 = 0
        /\ LET term_size == Len(enc.val) \div 2
           IN  /\ term_size % 8 = 0
               /\ BothTermsFit(arg.value, term_size)
               /\ ~BothTermsFit(arg.value, term_size - 8)
               /\ from_bytes(SubSeq(enc.val, 1, term_size), TRUE) = arg.value.numerator
               /\ from_bytes(SubSeq(enc.val, term_size + 1, 2 * term_size), FALSE)
                      = arg.value.denominator
        /\ (pc = "decoded" => dec.err = "" /\ dec.val = arg.value)

\* a negative rational whose terms need 16 bytes each has been decoded
C5_WideRationalDecoded ==
    /\ arg.op = "rational" /\ pc = "decoded"
    /\ arg.value.numerator.neg /\ Len(enc.val) = 32

\* C6: for every list of n booleans, bitvector_to_bytes returns ceil(n/8)
\* bytes in which bit (i mod 8) of byte (i div 8), counted from the least
\* significant bit, equals entry i; bytes_to_bitvector of that output has
\* length 8 * ceil(n/8), its first n entries equal the input and the rest are
\* False.
C6_BitvectorLayout ==
    (arg.op = "bitvector" /\ pc # "start") =>
        LET n == Len(arg.value)
            num_bytes == (n + 7) \div 8
        IN  /\ Len(enc.val) = num_bytes
            /\ \A i \in 0..(n - 1) :
                   ((enc.val[(i \div 8) + 1] \div (2 ^ (i % 8))) % 2 = 1) <=> arg.value[i + 1]
            /\ (pc = "decoded" =>
                   /\ Len(dec.val) = 8 * num_bytes
                   /\ \A i \in 1..n : dec.val[i] = arg.value[i]
                   /\ \A i \in (n + 1)..(8 * num_bytes) : dec.val[i] = FALSE)

\* a list of 9 booleans with mixed entries has gone through both conversions
C6_TwoByteBitvectorDecoded ==
    /\ arg.op = "bitvector" /\ pc = "decoded"
    /\ Len(arg.value) = 9 /\ arg.value[9] /\ arg.value[1] /\ ~arg.value[2]

\* C7: for every string s of at most 65535 UTF-8 bytes (the empty string
\* included) and any trailing bytes rest, string_pack(s) is the 2-byte
\* little-endian unsigned byte length followed by the UTF-8 bytes, and
\* string_unpack(string_pack(s) + rest) returns (s, rest).
C7_StringPackRoundTrip ==
    (arg.op = "string" /\ pc # "start") =>
        LET length == Len(string_to_bytes(arg.value))
        IN  /\ enc.err = ""
            /\ enc.val = <<length % 256, length \div 256>> \o string_to_bytes(arg.value)
            /\ (pc = "decoded" => dec.err = "" /\ dec.val = <<arg.value, arg.rest>>)

\* string_unpack has raised on the packed empty string
C7_EmptyStringRejected ==
    /\ arg.op = "string" /\ arg.value = <<>> /\ arg.rest = <<>>
    /\ pc = "decoded" /\ enc.val = <<0, 0>> /\ dec.err = "AssertionError"

\* ======================================================= umbi.vectors.csr
\* Row-start indices and ranges are small, so they are plain numbers here; a
\* range (start, end) is the pair <<start, end>>.  Inputs are lists of
\* integers and lists of pairs of integers, so the isinstance tests of the
\* two predicates always succeed.

\* is_interval, the local predicate of is_vector_ranges
is_interval(x) == Len(x) = 2 /\ x[1] <= x[2]

is_vector_ranges(ranges) ==
    IF Len(ranges) = 0 THEN FALSE
    ELSE IF ~(\A i \in 1..Len(ranges) : is_interval(ranges[i])) THEN FALSE
    ELSE \A i \in 1..(Len(ranges) - 1) : ranges[i][2] = ranges[i + 1][1]

is_vector_csr(vector) ==
    IF Len(vector) < 2 THEN FALSE
    ELSE IF vector[1] # 0 THEN FALSE
    ELSE \A i \in 1..(Len(vector) - 1) : vector[i] <= vector[i + 1]

csr_to_ranges(csr) ==
    IF ~is_vector_csr(csr) THEN Raise("AssertionError")
    ELSE Ok([i \in 1..(Len(csr) - 1) |-> <<csr[i], csr[i + 1]>>])

\* a faulty variant of ranges_to_csr that does not append the last end
ranges_to_csr_no_last_end(ranges) ==
    IF ~is_vector_ranges(ranges) THEN Raise("AssertionError")
    ELSE Ok([i \in 1..Len(ranges) |-> ranges[i][1]])

ranges_to_csr(ranges) ==
    IF ~is_vector_ranges(ranges) THEN Raise("AssertionError")
    ELSE Ok([i \in 1..Len(ranges) |-> ranges[i][1]] \o <<ranges[Len(ranges)][2]>>)

\* longest list of row starts
MaxCsrLen == 4
\* longest list of ranges
MaxRanges == 2
\* largest index in a list of row starts or in a range
MaxIndex == 3

CsrInputs == UNION {[1..n -> 0..MaxIndex] : n \in 0..MaxCsrLen}

RangesInputs == UNION {[1..n -> (0..MaxIndex) \X (0..MaxIndex)] : n \in 0..MaxRanges}

CsrInit ==
    /\ pc = "start"
    /\ enc = None
    /\ dec = None
    /\ \/ \E c \in CsrInputs :
            arg = [op |-> "csr", type |-> "int", value |-> c, rest |-> <<>>]
       \/ \E r \in RangesInputs :
            arg = [op |-> "ranges", type |-> "int", value |-> r, rest |-> <<>>]

\* csr_to_ranges(c)
CsrToRanges ==
    /\ pc = "start" /\ arg.op = "csr"
    /\ enc' = csr_to_ranges(arg.value)
    /\ pc' = "encoded"
    /\ UNCHANGED <<arg, dec>>

\* ranges_to_csr(csr_to_ranges(c))
RangesBackToCsr ==
    /\ pc = "encoded" /\ arg.op = "csr" /\ enc.err = ""
    /\ dec' = ranges_to_csr(enc.val)
    /\ pc' = "decoded"
    /\ UNCHANGED <<arg, enc>>

\* ranges_to_csr(r)
RangesToCsr ==
    /\ pc = "start" /\ arg.op = "ranges"
    /\ enc' = ranges_to_csr(arg.value)
    /\ pc' = "encoded"
    /\ UNCHANGED <<arg, dec>>

\* csr_to_ranges(ranges_to_csr(r))
CsrBackToRanges ==
    /\ pc = "encoded" /\ arg.op = "ranges" /\ enc.err = ""
    /\ dec' = csr_to_ranges(enc.val)
    /\ pc' = "decoded"
    /\ UNCHANGED <<arg, enc>>

CsrNext == CsrToRanges \/ RangesBackToCsr \/ RangesToCsr \/ CsrBackToRanges

SpecCsr == CsrInit /\ [][CsrNext]_vars

\* c is a list of at least 2 integers that starts at 0 and never decreases
ValidCsr(c) ==
    Len(c) >= 2 /\ c[1] = 0 /\ \A i \in 1..(Len(c) - 1) : c[i] <= c[i + 1]

\* r is a non-empty list of ranges, each with start <= end and each end equal
\* to the next start
ValidRanges(r) ==
    /\ Len(r) >= 1
    /\ \A i \in 1..Len(r) : r[i][1] <= r[i][2]
    /\ \A i \in 1..(Len(r) - 1) : r[i][2] = r[i + 1][1]

\* C8: for every valid CSR vector c (integers, length at least 2, c[0] = 0,
\* non-decreasing), csr_to_ranges(c) is a valid ranges vector and
\* ranges_to_csr(csr_to_ranges(c)) = c.
C8_CsrRoundTrip ==
    (arg.op = "csr" /\ pc # "start" /\ ValidCsr(arg.value)) =>
        /\ enc.err = ""
        /\ ValidRanges(enc.val)
        /\ is_vector_ranges(enc.val)
        /\ (pc = "decoded" => dec.err = "" /\ dec.val = arg.value)

\* the CSR vector [0, 1, 1, 3] has been converted to ranges and back
C8_CsrConvertedBack ==
    /\ arg.op = "csr" /\ arg.value = <<0, 1, 1, 3>>
    /\ pc = "decoded" /\ enc.val = << <<0, 1>>, <<1, 1>>, <<1, 3>> >>

\* C9: for every ranges vector r that is_vector_ranges accepts (non-empty,
\* each start <= end, each end equal to the next start), ranges_to_csr(r) is a
\* valid CSR vector accepted by is_vector_csr and
\* csr_to_ranges(ranges_to_csr(r)) = r, so the two conversions are total,
\* mutually inverse bijections between valid ranges and valid CSR vectors.
C9_RangesRoundTrip ==
    (arg.op = "ranges" /\ pc # "start" /\ is_vector_ranges(arg.value)) =>
        /\ enc.err = ""
        /\ ValidCsr(enc.val)
        /\ is_vector_csr(enc.val)
        /\ (pc = "decoded" => dec.err = "" /\ dec.val = arg.value)

\* the accepted ranges vector [(1, 3)] became [1, 3], which csr_to_ranges
\* refuses
C9_OffsetRangesRefused ==
    /\ arg.op = "ranges" /\ arg.value = << <<1, 3>> >>
    /\ pc = "decoded" /\ enc.val = <<1, 3>> /\ dec.err = "AssertionError"

\* ==================================================== the struct codec
\* A bitstring.BitArray is the sequence of its bits, most significant first.
\* A float is the sequence of the 8 bytes of its IEEE-754 binary64 pattern,
\* most significant byte first.  A struct field is a record with kind
\* "padding" (StructPadding) or "attribute" (StructAttribute); the values of
\* a record are a function from attribute names to values.  Values have the
\* type their attribute declares, so the isinstance assertions of the
\* packer always succeed.

\* size = NoSize stands for StructAttribute.size = None
NoSize == -1

StructPadding(padding) == [kind |-> "padding", padding |-> padding]

StructAttribute(name, type, size) ==
    [kind |-> "attribute", name |-> name, type |-> type, size |-> size]

\* bit i >= 1 of a bitstring, counted from its least significant end
BitFromEnd(bits, i) == IF i <= Len(bits) THEN bits[Len(bits) - i + 1] ELSE 0

\* BitArray(uint=m, length=n) for a magnitude m < 2^n
BitsOfMag(m, n) == [i \in 1..n |-> MagBit(m, n - i + 1)]

\* BitArray.uint, as a magnitude
BitsToMag(bits) ==
    MagNorm([k \in 1..((Len(bits) + 7) \div 8) |->
        BitFromEnd(bits, 8 * k - 7) + 2 * BitFromEnd(bits, 8 * k - 6)
        + 4 * BitFromEnd(bits, 8 * k - 5) + 8 * BitFromEnd(bits, 8 * k - 4)
        + 16 * BitFromEnd(bits, 8 * k - 3) + 32 * BitFromEnd(bits, 8 * k - 2)
        + 64 * BitFromEnd(bits, 8 * k - 1) + 128 * BitFromEnd(bits, 8 * k)])

\* BitArray(bytes=b) for a single byte b
ByteBits(b) == [i \in 1..8 |-> (b \div (2 ^ (8 - i))) % 2]

\* BitArray.tobytes() of 8 bits
BitsByte(bits) == MagToNat(BitsToMag(bits))

\* boolean_pack(value, num_bits)
boolean_pack(value, num_bits0) ==
    LET value_uint == IF value THEN 1 ELSE 0
        num_bits == IF num_bits0 = NoSize THEN 1 ELSE num_bits0
    IN  IF num_bits <= 0 THEN Raise("CreationError")
        ELSE Ok(BitsOfMag(NatMag(value_uint), num_bits))

\* boolean_unpack(bits): bits.uint != 0
boolean_unpack(bits) == BitsToMag(bits) # <<>>

\* integer_pack(value, num_bits, signed)
integer_pack(value, num_bits, signed) ==
    With(assert_integer_fits(value, signed, num_bits), LAMBDA fits :
        IF fits # "" THEN Raise(fits)
        ELSE IF value.neg THEN Ok(BitsOfMag(MagSub(Pow2Mag(num_bits), value.mag), num_bits))
        ELSE Ok(BitsOfMag(value.mag, num_bits)))

\* integer_unpack(bits, signed): bits.int or bits.uint
integer_unpack(bits, signed) ==
    IF signed /\ bits # <<>> /\ bits[1] = 1
    THEN Big(TRUE, MagSub(Pow2Mag(Len(bits)), BitsToMag(bits)))
    ELSE Big(FALSE, BitsToMag(bits))

\* double_pack(value): BitArray(float=value, length=64)
double_pack(value) == [i \in 1..64 |-> ByteBits(value[((i - 1) \div 8) + 1])[((i - 1) % 8) + 1]]

\* double_unpack(bits): bits.float
double_unpack(bits) ==
    IF Len(bits) # 64 THEN Raise("AssertionError")
    ELSE Ok([k \in 1..8 |-> BitsByte(SubSeq(bits, 8 * k - 7, 8 * k))])

rational_pack(value0) ==
    With(normalize_rational(value0), LAMBDA value :
        Then(rational_to_bytes(value, NoTermSize), LAMBDA rational_bytes :
            Then(integer_to_bytes(BigOfInt(Len(rational_bytes) \div 2), 2, FALSE),
                 LAMBDA prefix_bytes : Ok(prefix_bytes \o rational_bytes))))

rational_unpack(bytestring) ==
    Then(split_bytes(bytestring, 2), LAMBDA s1 :
        Then(split_bytes(s1[2], IntOfBig(bytes_to_integer(s1[1], FALSE)) * 2), LAMBDA s2 :
            Then(bytes_to_rational(s2[1]), LAMBDA rational : Ok(<<rational, s2[2]>>))))

\* ---------------------------------------------------------- StructPacker
\* A StructPacker is the record of its buffer and its bytestring.

StructPacker == [buffer |-> <<>>, bytestring |-> <<>>]

\* a faulty variant of flush_buffer: an if in place of the while
flush_buffer_once(self) ==
    IF Len(self.buffer) >= 8
    THEN LET n == Len(self.buffer)
         IN  [buffer |-> SubSeq(self.buffer, 1, n - 8),
              bytestring |-> self.bytestring \o <<BitsByte(SubSeq(self.buffer, n - 7, n))>>]
    ELSE self

RECURSIVE flush_buffer(_)
flush_buffer(self) ==
    IF Len(self.buffer) >= 8
    THEN LET n == Len(self.buffer)
         IN  flush_buffer([buffer |-> SubSeq(self.buffer, 1, n - 8),
                           bytestring |-> self.bytestring
                                          \o <<BitsByte(SubSeq(self.buffer, n - 7, n))>>])
    ELSE self

append_to_buffer(self, bits) == flush_buffer([self EXCEPT !.buffer = bits \o self.buffer])

add_padding(self, num_bits) ==
    IF ~(num_bits > 0) THEN Raise("AssertionError")
    ELSE Ok(append_to_buffer(self, [i \in 1..num_bits |-> 0]))

pack_attribute(self, field, value) ==
    IF field.type \in {"string", "rational"}
    THEN IF Len(self.buffer) > 0 THEN Raise("RuntimeError")
         ELSE Then(IF field.type = "string" THEN string_pack(value) ELSE rational_pack(value),
                   LAMBDA packed : Ok([self EXCEPT !.bytestring = self.bytestring \o packed]))
    ELSE Then(CASE field.type = "bool" -> boolean_pack(value, field.size)
                [] field.type \in {"int", "uint"} ->
                       IF field.size = NoSize THEN Raise("AssertionError")
                       ELSE integer_pack(value, field.size, field.type = "int")
                [] field.type = "double" ->
                       IF field.size # 64 THEN Raise("AssertionError")
                       ELSE Ok(double_pack(value))
                [] OTHER -> Raise("ValueError"),
              LAMBDA value_bits : Ok(append_to_buffer(self, value_bits)))

\* one iteration of the loop of pack_struct
pack_field(self, field, values) ==
    IF field.kind = "padding" THEN add_padding(self, field.padding)
    ELSE IF field.name \notin DOMAIN values THEN Raise("KeyError")
    ELSE pack_attribute(self, field, values[field.name])

\* a faulty variant of the end of pack_struct, without assert_buffer_empty
pack_return_unchecked(self) == Ok(self.bytestring)

\* the end of pack_struct: assert_buffer_empty, then the bytestring
pack_return(self) ==
    IF Len(self.buffer) > 0 THEN Raise("RuntimeError") ELSE Ok(self.bytestring)

RECURSIVE pack_struct_from(_, _, _, _)
pack_struct_from(self, value_type, values, i) ==
    IF i > Len(value_type) THEN pack_return(self)
    ELSE Then(pack_field(self, value_type[i], values),
              LAMBDA next : pack_struct_from(next, value_type, values, i + 1))

struct_pack(value_type, values) == pack_struct_from(StructPacker, value_type, values, 1)

\* -------------------------------------------------------- StructUnpacker

StructUnpacker(bytestring) == [bytestring |-> bytestring, buffer |-> <<>>]

RECURSIVE ReadBytes(_, _)
\* the loop of align_buffer: k bytes, one at a time, each put before the buffer
ReadBytes(self, k) ==
    IF k = 0 THEN Ok(self)
    ELSE Then(split_bytes(self.bytestring, 1), LAMBDA s :
             ReadBytes([bytestring |-> s[2], buffer |-> ByteBits(s[1][1]) \o self.buffer],
                       k - 1))

align_buffer(self, num_bits) ==
    IF Len(self.buffer) >= num_bits THEN Ok(self)
    ELSE IF ~(Len(self.bytestring) >= (num_bits - Len(self.buffer) + 7) \div 8)
         THEN Raise("AssertionError")
         ELSE ReadBytes(self, (num_bits - Len(self.buffer) + 7) \div 8)

\* extract_from_buffer: the bits taken and the unpacker after taking them; the
\* slices buffer[-0:] and buffer[:-0] are the whole buffer and the empty one
extract_from_buffer(self, num_bits) ==
    IF ~(num_bits >= 0) THEN Raise("AssertionError")
    ELSE Then(align_buffer(self, num_bits), LAMBDA aligned :
             IF num_bits = 0
             THEN Ok([bits |-> aligned.buffer, self |-> [aligned EXCEPT !.buffer = <<>>]])
             ELSE Ok([bits |-> SubSeq(aligned.buffer, Len(aligned.buffer) - num_bits + 1,
                                      Len(aligned.buffer)),
                      self |-> [aligned EXCEPT
                                   !.buffer = SubSeq(aligned.buffer, 1,
                                                     Len(aligned.buffer) - num_bits)]]))

skip_padding(self, num_bits) ==
    Then(extract_from_buffer(self, num_bits), LAMBDA taken : Ok(taken.self))

\* unpack_attribute: the value and the unpacker after reading it
unpack_attribute(self, field) ==
    IF field.type \in {"string", "rational"}
    THEN IF Len(self.buffer) > 0 THEN Raise("RuntimeError")
         ELSE Then(IF field.type = "string" THEN string_unpack(self.bytestring)
                   ELSE rational_unpack(self.bytestring),
                   LAMBDA unpacked :
                       Ok([value |-> unpacked[1],
                           self |-> [self EXCEPT !.bytestring = unpacked[2]]]))
    ELSE IF field.size = NoSize THEN Raise("AssertionError")
    ELSE Then(extract_from_buffer(self, field.size), LAMBDA taken :
             CASE field.type = "bool" ->
                      Ok([value |-> boolean_unpack(taken.bits), self |-> taken.self])
               [] field.type \in {"int", "uint"} ->
                      Ok([value |-> integer_unpack(taken.bits, field.type = "int"),
                          self |-> taken.self])
               [] field.type = "double" ->
                      Then(double_unpack(taken.bits), LAMBDA value :
                          Ok([value |-> value, self |-> taken.self]))
               [] OTHER -> Raise("ValueError"))

\* name_value[name] = value on a dict
DictSet(name_value, name, value) ==
    [n \in (DOMAIN name_value) \cup {name} |-> IF n = name THEN value ELSE name_value[n]]

\* one iteration of the loop of unpack_struct: the dict and the unpacker after it
unpack_field(self, field, name_value) ==
    IF field.kind = "padding"
    THEN Then(skip_padding(self, field.padding), LAMBDA skipped :
             Ok([name_value |-> name_value, self |-> skipped]))
    ELSE Then(unpack_attribute(self, field), LAMBDA unpacked :
             Ok([name_value |-> DictSet(name_value, field.name, unpacked.value),
                 self |-> unpacked.self]))

\* the end of unpack_struct: assert_buffer_empty, then the dict
unpack_return(self, name_value) ==
    IF Len(self.buffer) > 0 THEN Raise("RuntimeError") ELSE Ok(name_value)

RECURSIVE unpack_struct_from(_, _, _, _)
unpack_struct_from(self, value_type, name_value, i) ==
    IF i > Len(value_type) THEN unpack_return(self, name_value)
    ELSE Then(unpack_field(self, value_type[i], name_value), LAMBDA next :
             unpack_struct_from(next.self, value_type, next.name_value, i + 1))

struct_unpack(bytestring, value_type) ==
    unpack_struct_from(StructUnpacker(bytestring), value_type, <<>>, 1)

\* ------------------------------------------- struct_pack, then struct_unpack
\* A behaviour of SpecStruct draws a struct type and a record of values of
\* the declared types that fit the declared sizes, runs the loop of
\* pack_struct one field at a time and then, on the bytes it returned, the
\* loop of unpack_struct.

\* most fields of a struct type
MaxFields == 2

\* attribute names, by position in the struct type
FieldNames == <<"a", "b", "c", "d">>

\* the layouts a field is drawn from: a padding (kind, bits) or an attribute
\* (kind, type, size)
FieldChoices ==
    {<<"padding", "", 1>>, <<"padding", "", 7>>,
     <<"attribute", "bool", 1>>, <<"attribute", "int", 7>>, <<"attribute", "uint", 9>>,
     <<"attribute", "int", 64>>, <<"attribute", "double", 64>>,
     <<"attribute", "string", NoSize>>, <<"attribute", "rational", NoSize>>}

FieldOf(choice, i) ==
    IF choice[1] = "padding" THEN StructPadding(choice[3])
    ELSE StructAttribute(FieldNames[i], choice[2], choice[3])

\* the struct types of at most max_fields fields
StructTypes(max_fields) ==
    UNION {{[i \in 1..n |-> FieldOf(choices[i], i)] : choices \in [1..n -> FieldChoices]} :
              n \in 0..max_fields}

\* values of the type an attribute declares that fit its size
ValuesOf(field) ==
    CASE field.type = "bool" -> {TRUE, FALSE}
      [] field.type = "int" ->
             {BigNeg(BigShl1(field.size - 1)), BigOfInt(-1),
              BigSub(BigShl1(field.size - 1), BigOne)}
      [] field.type = "uint" -> {BigZero, BigSub(BigShl1(field.size), BigOne)}
      [] field.type = "double" ->
             {<<63, 240, 0, 0, 0, 0, 0, 0>>, <<192, 4, 0, 0, 0, 0, 0, 1>>}
      [] field.type = "string" -> {<<>>, <<97>>, <<233, 8364>>}
      [] field.type = "rational" ->
             {Fraction(BigOfInt(-1), BigOfInt(2)).val, Fraction(BigShl1(64), BigOfInt(3)).val}

RECURSIVE RecordsFrom(_, _)
\* the records that give every attribute from position i on one of its values
RecordsFrom(value_type, i) ==
    IF i > Len(value_type) THEN {<<>>}
    ELSE IF value_type[i].kind = "padding" THEN RecordsFrom(value_type, i + 1)
    ELSE {DictSet(r, value_type[i].name, v) :
              r \in RecordsFrom(value_type, i + 1), v \in ValuesOf(value_type[i])}

StructInit ==
    /\ pc = "packing"
    /\ \E value_type \in StructTypes(MaxFields) : \E values \in RecordsFrom(value_type, 1) :
           arg = [op |-> "struct", type |-> value_type, value |-> values, rest |-> <<>>]
    /\ enc = [err |-> "", val |-> <<>>, self |-> StructPacker, fields |-> 0]
    /\ dec = None

\* the call in progress after an iteration of pack_struct's loop returned
\* the packer next.val or raised next.err
AfterPackField(call, next) ==
    IF next.err # "" THEN [call EXCEPT !.err = next.err]
    ELSE [call EXCEPT !.self = next.val, !.fields = call.fields + 1]

\* the call in progress after an iteration of unpack_struct's loop
AfterUnpackField(call, next) ==
    IF next.err # "" THEN [call EXCEPT !.err = next.err, !.val = <<>>]
    ELSE [call EXCEPT !.self = next.val.self, !.val = next.val.name_value,
                      !.fields = call.fields + 1]

\* the call after its return statement returned result.val or raised
AfterReturn(call, result) == [call EXCEPT !.err = result.err, !.val = result.val]

\* pack_struct: the next field of the loop
PackField ==
    /\ pc = "packing" /\ enc.fields < Len(arg.type)
    /\ enc' = AfterPackField(enc, pack_field(enc.self, arg.type[enc.fields + 1], arg.value))
    /\ pc' = IF enc'.err # "" THEN "encoded" ELSE "packing"
    /\ UNCHANGED <<arg, dec>>

\* pack_struct: after the loop
PackReturn ==
    /\ pc = "packing" /\ enc.fields = Len(arg.type)
    /\ enc' = AfterReturn(enc, pack_return(enc.self))
    /\ pc' = "encoded"
    /\ UNCHANGED <<arg, dec>>

\* struct_unpack: StructUnpacker(bytestring) on the bytes struct_pack returned
NewUnpacker ==
    /\ pc = "encoded" /\ arg.op = "struct" /\ enc.err = ""
    /\ dec' = [err |-> "", val |-> <<>>, self |-> StructUnpacker(enc.val), fields |-> 0]
    /\ pc' = "unpacking"
    /\ UNCHANGED <<arg, enc>>

\* unpack_struct: the next field of the loop
UnpackField ==
    /\ pc = "unpacking" /\ dec.fields < Len(arg.type)
    /\ dec' = AfterUnpackField(dec, unpack_field(dec.self, arg.type[dec.fields + 1], dec.val))
    /\ pc' = IF dec'.err # "" THEN "decoded" ELSE "unpacking"
    /\ UNCHANGED <<arg, enc>>

\* unpack_struct: after the loop
UnpackReturn ==
    /\ pc = "unpacking" /\ dec.fields = Len(arg.type)
    /\ dec' = AfterReturn(dec, unpack_return(dec.self, dec.val))
    /\ pc' = "decoded"
    /\ UNCHANGED <<arg, enc>>

StructNext == PackField \/ PackReturn \/ NewUnpacker \/ UnpackField \/ UnpackReturn

SpecStruct == StructInit /\ [][StructNext]_vars

\* bits held since the last byte boundary after the first i fields
RECURSIVE BitsPending(_, _)
BitsPending(value_type, i) ==
    IF i = 0 THEN 0
    ELSE LET field == value_type[i]
         IN  IF field.kind = "padding" THEN (BitsPending(value_type, i - 1) + field.padding) % 8
             ELSE IF field.size = NoSize THEN 0
             ELSE (BitsPending(value_type, i - 1) + field.size) % 8

\* every string or rational attribute starts at a byte boundary and the
\* struct ends at one
ByteAligned(value_type) ==
    /\ BitsPending(value_type, Len(value_type)) = 0
    /\ \A i \in 1..Len(value_type) :
           (value_type[i].kind = "attribute" /\ value_type[i].size = NoSize)
               => BitsPending(value_type, i - 1) = 0

\* C3: for any StructType S (a sequence of paddings and attributes of type
\* bool, int, uint, double, string or rational) and any record r that gives
\* every attribute of S a value of its declared type that fits its declared
\* size, struct_unpack(struct_pack(S, r), S) returns r.  Stated for the
\* byte-aligned S only, which the packer requires.
C3_StructRoundTrip ==
    (arg.op = "struct" /\ ByteAligned(arg.type) /\ pc \in {"encoded", "decoded"}) =>
        /\ enc.err = ""
        /\ (pc = "decoded" => dec.err = "" /\ dec.val = arg.value)

\* struct_unpack has raised on the packed struct whose one attribute is the
\* empty string
C3_EmptyStringAttributeRejected ==
    /\ arg.op = "struct" /\ pc = "decoded"
    /\ arg.type = <<StructAttribute("a", "string", NoSize)>>
    /\ arg.value = [a |-> <<>>]
    /\ enc.val = <<0, 0>> /\ dec.err = "AssertionError"

\* C19: struct_pack raises an error and returns no bytes whenever the bit
\* buffer is non-empty at the point where a string or rational attribute is
\* about to be encoded, or is non-empty after the last field; that is,
\* whenever the fixed-size fields and paddings since the last byte boundary
\* do not sum to a multiple of 8 bits.  While pack_struct runs its buffer
\* holds that sum modulo 8; a step of it that meets a non-empty buffer
\* before a string or rational attribute or after the last field raises
\* RuntimeError and returns nothing; and the call has raised it exactly for
\* the struct types that are not byte-aligned.
C19_UnalignedStructRejected ==
    /\ []((arg.op = "struct" /\ pc = "packing") =>
              Len(enc.self.buffer) = BitsPending(arg.type, enc.fields))
    /\ [][(arg.op = "struct" /\ pc = "packing" /\ Len(enc.self.buffer) > 0
              /\ \/ enc.fields = Len(arg.type)
                 \/ /\ enc.fields < Len(arg.type)
                    /\ arg.type[enc.fields + 1].kind = "attribute"
                    /\ arg.type[enc.fields + 1].type \in {"string", "rational"})
               => (pc' = "encoded" /\ enc'.err = "RuntimeError" /\ enc'.val = <<>>)]_vars
    /\ []((arg.op = "struct" /\ pc = "encoded") =>
              ((enc.err = "RuntimeError" /\ enc.val = <<>>) <=> ~ByteAligned(arg.type)))

\* struct_pack has raised on a struct type of one bit followed by a string
\* attribute, and on no field after the bit
C19_StringAfterOneBitRejected ==
    /\ arg.op = "struct" /\ pc = "encoded"
    /\ arg.type = <<StructAttribute("a", "bool", 1), StructAttribute("b", "string", NoSize)>>
    /\ enc.fields = 1
    /\ enc.err = "RuntimeError" /\ enc.val = <<>>

RECURSIVE BytesAsBits(_)
\* the bits of a bytestring read as a little-endian number, most significant
\* bit first
BytesAsBits(bytestring) ==
    IF Len(bytestring) = 0 THEN <<>>
    ELSE BytesAsBits(Tail(bytestring)) \o ByteBits(Head(bytestring))

\* the bits that pack_struct appends for a field: the zeros of a padding,
\* the bits of a value of fixed size, the bytes of a string or rational
FieldBits(field, values) ==
    IF field.kind = "padding" THEN [i \in 1..field.padding |-> 0]
    ELSE CASE field.type = "bool" -> boolean_pack(values[field.name], field.size).val
           [] field.type \in {"int", "uint"} ->
                  integer_pack(values[field.name], field.size, field.type = "int").val
           [] field.type = "double" -> double_pack(values[field.name])
           [] field.type = "string" -> BytesAsBits(string_pack(values[field.name]).val)
           [] field.type = "rational" -> BytesAsBits(rational_pack(values[field.name]).val)

RECURSIVE AppendedBits(_, _, _)
\* the bits appended for the first i fields, the last field first
AppendedBits(value_type, values, i) ==
    IF i = 0 THEN <<>>
    ELSE FieldBits(value_type[i], values) \o AppendedBits(value_type, values, i - 1)

\* C26: during struct_pack, after every field or padding has been appended,
\* the bit buffer holds at most 7 bits, and the number of bits appended so
\* far equals 8 times the number of bytes drained from the buffer plus the
\* number of bits still in the buffer; no appended bit is dropped or
\* duplicated: the buffer followed by the bits of the bytestring are the
\* appended bits.
C26_BufferDrained ==
    arg.op = "struct" =>
        /\ Len(enc.self.buffer) <= 7
        /\ Len(AppendedBits(arg.type, arg.value, enc.fields))
               = 8 * Len(enc.self.bytestring) + Len(enc.self.buffer)
        /\ enc.self.buffer \o BytesAsBits(enc.self.bytestring)
               = AppendedBits(arg.type, arg.value, enc.fields)

\* one byte was drained of the nine bits of an attribute and one bit is
\* left in the buffer
C26_ByteDrainedOfNineBits ==
    /\ arg.op = "struct" /\ pc = "packing"
    /\ arg.type = <<StructAttribute("a", "uint", 9), StructPadding(7)>>
    /\ arg.value = [a |-> BigOfInt(511)]
    /\ enc.fields = 1
    /\ enc.self = [buffer |-> <<1>>, bytestring |-> <<255>>]

\* ================================================= umbi.binary.composites
\* A CompositeType is the sequence of its fields; CompositePacker and
\* CompositeUnpacker keep the buffer and the bytestring as StructPacker and
\* StructUnpacker do, with the same statements in flush_buffer,
\* append_to_buffer, add_padding, align_buffer, extract_from_buffer and
\* skip_padding.

Padding(padding) == [kind |-> "padding", padding |-> padding]

Field(name, type, size) == [kind |-> "field", name |-> name, type |-> type, size |-> size]

\* numeric_pack(value, type, size): an int in two's complement and a uint
\* unsigned, in size bits; a double in its 64 bits
numeric_pack(value, type, size) ==
    CASE type = "int" -> integer_pack(value, size, TRUE)
      [] type = "uint" -> integer_pack(value, size, FALSE)
      [] type = "double" -> IF size # 64 THEN Raise("AssertionError")
                            ELSE Ok(double_pack(value))
      [] OTHER -> Raise("ValueError")

\* numeric_unpack(bits, type)
numeric_unpack(bits, type) ==
    CASE type = "int" -> Ok(integer_unpack(bits, TRUE))
      [] type = "uint" -> Ok(integer_unpack(bits, FALSE))
      [] type = "double" -> double_unpack(bits)
      [] OTHER -> Raise("ValueError")

CompositePacker == [buffer |-> <<>>, bytestring |-> <<>>]

\* CompositePacker.pack_field
CompositePacker_pack_field(self, field, value) ==
    IF field.type \in {"string", "rational"} /\ Len(self.buffer) > 0
    THEN Raise("RuntimeError")
    ELSE IF field.type = "string"
    THEN Then(string_pack(value), LAMBDA packed :
             Ok([self EXCEPT !.bytestring = self.bytestring \o packed]))
    ELSE IF field.type = "rational"
    THEN Then(rational_pack(value), LAMBDA packed :
             Ok([self EXCEPT !.bytestring = self.bytestring \o packed]))
    ELSE Then(IF field.type = "bool" THEN boolean_pack(value, field.size)
              ELSE IF field.size = NoSize THEN Raise("AssertionError")
              ELSE numeric_pack(value, field.type, field.size),
              LAMBDA value_bits : Ok(append_to_buffer(self, value_bits)))

RECURSIVE pack_fields_from(_, _, _, _)
\* CompositePacker.pack_fields from field i on
pack_fields_from(self, value_type, values, i) ==
    IF i > Len(value_type)
    THEN IF Len(self.buffer) > 0 THEN Raise("RuntimeError") ELSE Ok(self.bytestring)
    ELSE Then(IF value_type[i].kind = "padding" THEN add_padding(self, value_type[i].padding)
              ELSE IF value_type[i].name \notin DOMAIN values THEN Raise("ValueError")
              ELSE CompositePacker_pack_field(self, value_type[i],
                                              values[value_type[i].name]),
              LAMBDA next : pack_fields_from(next, value_type, values, i + 1))

composite_pack(value_type, values) == pack_fields_from(CompositePacker, value_type, values, 1)

CompositeUnpacker(bytestring) == [bytestring |-> bytestring, buffer |-> <<>>]

\* CompositeUnpacker.unpack_field: the value and the unpacker after reading it
CompositeUnpacker_unpack_field(self, field) ==
    IF field.type \in {"string", "rational"} /\ Len(self.buffer) > 0
    THEN Raise("RuntimeError")
    ELSE IF field.type \in {"string", "rational"}
    THEN Then(IF field.type = "string" THEN string_unpack(self.bytestring)
              ELSE rational_unpack(self.bytestring),
              LAMBDA unpacked :
                  Ok([value |-> unpacked[1],
                      self |-> [self EXCEPT !.bytestring = unpacked[2]]]))
    ELSE IF field.size = NoSize THEN Raise("AssertionError")
    ELSE Then(extract_from_buffer(self, field.size), LAMBDA taken :
             IF field.type = "bool"
             THEN Ok([value |-> boolean_unpack(taken.bits), self |-> taken.self])
             ELSE Then(numeric_unpack(taken.bits, field.type), LAMBDA value :
                      Ok([value |-> value, self |-> taken.self])))

RECURSIVE unpack_fields_from(_, _, _, _)
\* CompositeUnpacker.unpack_fields from field i on
unpack_fields_from(self, value_type, values, i) ==
    IF i > Len(value_type)
    THEN IF Len(self.buffer) > 0 THEN Raise("RuntimeError") ELSE Ok(values)
    ELSE IF value_type[i].kind = "padding"
    THEN Then(skip_padding(self, value_type[i].padding), LAMBDA skipped :
             unpack_fields_from(skipped, value_type, values, i + 1))
    ELSE Then(CompositeUnpacker_unpack_field(self, value_type[i]), LAMBDA unpacked :
             unpack_fields_from(unpacked.self, value_type,
                                DictSet(values, value_type[i].name, unpacked.value), i + 1))

composite_unpack(bytestring, value_type) ==
    unpack_fields_from(CompositeUnpacker(bytestring), value_type, <<>>, 1)

\* ================================================= umbi.binary.primitives

primitives == {"int16", "uint16", "int32", "int64", "uint32", "uint64", "double"}

assert_is_primitive(value_type) ==
    IF value_type \notin primitives THEN Raise("ValueError") ELSE Ok(None)

value_type_to_struct_format(value_type) ==
    Then(assert_is_primitive(value_type), LAMBDA checked :
        Ok(CASE value_type = "int16" -> "h" [] value_type = "uint16" -> "H"
             [] value_type = "int32" -> "i" [] value_type = "int64" -> "q"
             [] value_type = "uint32" -> "I" [] value_type = "uint64" -> "Q"
             [] value_type = "double" -> "d"))

primitive_value_type_size(value_type) ==
    Then(assert_is_primitive(value_type), LAMBDA checked :
        Ok(CASE value_type \in {"int16", "uint16"} -> 2
             [] value_type \in {"int32", "uint32"} -> 4
             [] value_type \in {"int64", "uint64", "double"} -> 8))

\* struct.calcsize("<" + format)
calcsize(format) ==
    CASE format \in {"h", "H"} -> 2 [] format \in {"i", "I"} -> 4 [] OTHER -> 8

Reverse(s) == [i \in 1..Len(s) |-> s[Len(s) - i + 1]]

\* struct.pack("<" + format, value): struct.error when an integer is out of
\* the range of its format
StructModulePack(format, value) ==
    IF format = "d" THEN Ok(Reverse(value))
    ELSE With(to_bytes(value, calcsize(format), format \in {"h", "i", "q"}), LAMBDA packed :
             IF packed.err # "" THEN Raise("struct.error") ELSE packed)

\* struct.unpack("<" + format, data)[0]: struct.error unless data has the
\* size of the format
StructModuleUnpack(format, data) ==
    IF Len(data) # calcsize(format) THEN Raise("struct.error")
    ELSE IF format = "d" THEN Ok(Reverse(data))
    ELSE Ok(from_bytes(data, format \in {"h", "i", "q"}))

primitive_to_bytes(value, value_type) ==
    Then(value_type_to_struct_format(value_type), LAMBDA type_format :
        StructModulePack(type_format, value))

bytes_to_primitive(data, value_type) ==
    Then(value_type_to_struct_format(value_type), LAMBDA type_format :
        StructModuleUnpack(type_format, data))

\* ======================================================== umbi.binary.api
\* The interval element types are left out: interval_to_bytes calls
\* rational_size, which umbi.binary.rationals does not define.

standard_value_type_size(value_type) ==
    IF value_type = "rational"
    THEN Then(primitive_value_type_size("int64"), LAMBDA numerator_size :
             Then(primitive_value_type_size("uint64"), LAMBDA denominator_size :
                 Ok(numerator_size + denominator_size)))
    ELSE primitive_value_type_size(value_type)

value_to_bytes(value, value_type) ==
    IF value_type = "string" THEN Ok(string_to_bytes(value))
    ELSE IF value_type = "rational" THEN rational_to_bytes(value, NoTermSize)
    ELSE primitive_to_bytes(value, value_type)

bytes_to_value(data, value_type) ==
    IF value_type = "string" THEN bytes_to_string(data)
    ELSE IF value_type = "rational" THEN bytes_to_rational(data)
    ELSE bytes_to_primitive(data, value_type)

\* ================================================== umbi.binary.sequences
\* An element type is a type name (a str) or a CompositeType.  Optional
\* chunk ranges are None or Some(list of (start, end) pairs).

TypeName(name) == [composite |-> FALSE, name |-> name]

CompositeType(fields) == [composite |-> TRUE, fields |-> fields]

Some(v) == [none |-> FALSE, val |-> v]


\* data[start:end] for start, end >= 0
Slice(data, start, end) == SubSeq(data, Min(start, Len(data)) + 1, Min(end, Len(data)))

bytes_into_chunk_ranges(data, chunk_ranges) ==
    [i \in 1..Len(chunk_ranges) |-> Slice(data, chunk_ranges[i][1], chunk_ranges[i][2])]

bytes_into_num_chunks(data, num_chunks) ==
    IF ~(num_chunks > 0) THEN Raise("AssertionError")
    ELSE IF Len(data) % num_chunks # 0 THEN Raise("AssertionError")
    ELSE With(Len(data) \div num_chunks, LAMBDA chunk_size :
             Ok(bytes_into_chunk_ranges(data,
                    [i \in 1..num_chunks |-> <<(i - 1) * chunk_size, i * chunk_size>>])))

RECURSIVE Join(_)
\* b"".join(chunks)
Join(chunks) == IF Len(chunks) = 0 THEN <<>> ELSE Head(chunks) \o Join(Tail(chunks))

RECURSIVE ChunkRangesFrom(_, _, _)
\* the loop that appends (current_pos, current_pos + len(chunk)) for each chunk
ChunkRangesFrom(chunks, i, current_pos) ==
    IF i > Len(chunks) THEN <<>>
    ELSE << <<current_pos, current_pos + Len(chunks[i])>> >>
         \o ChunkRangesFrom(chunks, i + 1, current_pos + Len(chunks[i]))

RECURSIVE AllLenDiffer(_, _, _)
\* a faulty variant of AnyLenDiffers: all(...) in place of any(...)
AllLenDiffer(chunks, value_type, i) ==
    IF i > Len(chunks) THEN Ok(TRUE)
    ELSE Then(standard_value_type_size(value_type), LAMBDA size :
             IF Len(chunks[i]) = size THEN Ok(FALSE)
             ELSE AllLenDiffer(chunks, value_type, i + 1))

RECURSIVE AnyLenDiffers(_, _, _)
\* any(len(chunk) != standard_value_type_size(value_type) for chunk in chunks),
\* from chunk i on
AnyLenDiffers(chunks, value_type, i) ==
    IF i > Len(chunks) THEN Ok(FALSE)
    ELSE Then(standard_value_type_size(value_type), LAMBDA size :
             IF Len(chunks[i]) # size THEN Ok(TRUE)
             ELSE AnyLenDiffers(chunks, value_type, i + 1))

\* a list comprehension over calls, given what each call returned or raised:
\* the list of the values, or the exception of the first call that raised
Comprehension(results) ==
    IF \A i \in 1..Len(results) : results[i].err = ""
    THEN Ok([i \in 1..Len(results) |-> results[i].val])
    ELSE Raise(results[CHOOSE i \in 1..Len(results) :
                          results[i].err # "" /\ \A j \in 1..(i - 1) : results[j].err = ""].err)

\* [composite_pack(value_type, item) for item in vector], from item i on
PackedItemsFrom(vector, value_type, i) ==
    Comprehension([k \in 1..(Len(vector) - i + 1) |->
                      composite_pack(value_type, vector[i + k - 1])])

\* [value_to_bytes(item, value_type) for item in vector], from item i on
ItemBytesFrom(vector, value_type, i) ==
    Comprehension([k \in 1..(Len(vector) - i + 1) |->
                      value_to_bytes(vector[i + k - 1], value_type)])

\* [composite_unpack(chunk, value_type) for chunk in chunks], from chunk i on
UnpackedChunksFrom(chunks, value_type, i) ==
    Comprehension([k \in 1..(Len(chunks) - i + 1) |->
                      composite_unpack(chunks[i + k - 1], value_type)])

\* [bytes_to_value(chunk, value_type) for chunk in chunks], from chunk i on
ChunkValuesFrom(chunks, value_type, i) ==
    Comprehension([k \in 1..(Len(chunks) - i + 1) |->
                      bytes_to_value(chunks[i + k - 1], value_type)])

\* vector_to_bytes: the pair of the bytestring and the optional chunk ranges
vector_to_bytes(vector, value_type) ==
    IF Len(vector) = 0 THEN Ok(<<<<>>, None>>)
    ELSE IF value_type.composite
    THEN Then(PackedItemsFrom(vector, value_type.fields, 1), LAMBDA chunks :
             Ok(<<Join(chunks), Some(ChunkRangesFrom(chunks, 1, 0))>>))
    ELSE IF value_type.name = "bool" THEN Ok(<<bitvector_to_bytes(vector), None>>)
    ELSE Then(ItemBytesFrom(vector, value_type.name, 1), LAMBDA chunks :
             IF value_type.name = "string"
             THEN Ok(<<Join(chunks), Some(ChunkRangesFrom(chunks, 1, 0))>>)
             ELSE Then(AnyLenDiffers(chunks, value_type.name, 1), LAMBDA differs :
                      Ok(<<Join(chunks),
                           IF differs THEN Some(ChunkRangesFrom(chunks, 1, 0)) ELSE None>>)))

bytes_to_vector(data, value_type, chunk_ranges) ==
    IF value_type.composite
    THEN IF chunk_ranges.none THEN Raise("AssertionError")
         ELSE UnpackedChunksFrom(bytes_into_chunk_ranges(data, chunk_ranges.val),
                                 value_type.fields, 1)
    ELSE IF value_type.name = "bool" THEN Ok(bytes_to_bitvector(data))
    ELSE IF Len(data) = 0 THEN Ok(<<>>)
    ELSE IF chunk_ranges.none
    THEN Then(standard_value_type_size(value_type.name), LAMBDA chunk_size :
             IF Len(data) % chunk_size # 0 THEN Raise("AssertionError")
             ELSE Then(bytes_into_num_chunks(data, Len(data) \div chunk_size),
                       LAMBDA chunks : ChunkValuesFrom(chunks, value_type.name, 1)))
    ELSE ChunkValuesFrom(bytes_into_chunk_ranges(data, chunk_ranges.val), value_type.name, 1)

\* ----------------------------------- vector_to_bytes, then bytes_to_vector
\* A behaviour of SpecVector draws an element type and a vector of values
\* of that type, encodes the vector and decodes the bytes with the chunk
\* ranges the encoder returned.

\* longest vector
MaxVecLen == 3

\* the integers at the ends of the range of num_bits bits
IntValues(num_bits, signed) ==
    IF signed THEN {BigNeg(BigShl1(num_bits - 1)), BigSub(BigShl1(num_bits - 1), BigOne)}
    ELSE {BigZero, BigSub(BigShl1(num_bits), BigOne)}

CompositeTypes ==
    {CompositeType(<<Field("a", "bool", 1), Padding(7)>>),
     CompositeType(<<Field("a", "string", NoSize)>>),
     CompositeType(<<Field("a", "uint", 9), Padding(7), Field("b", "rational", NoSize)>>)}

ElementTypes ==
    {TypeName(n) : n \in primitives \cup {"bool", "rational", "string"}} \cup CompositeTypes

\* values of an element type; the doubles are 1.0 and a negative number
ElementsOf(value_type) ==
    IF value_type.composite THEN RecordsFrom(value_type.fields, 1)
    ELSE CASE value_type.name = "bool" -> BOOLEAN
           [] value_type.name = "int16" -> IntValues(16, TRUE)
           [] value_type.name = "uint16" -> IntValues(16, FALSE)
           [] value_type.name = "int32" -> IntValues(32, TRUE)
           [] value_type.name = "uint32" -> IntValues(32, FALSE)
           [] value_type.name = "int64" -> IntValues(64, TRUE)
           [] value_type.name = "uint64" -> IntValues(64, FALSE)
           [] value_type.name = "double" ->
                  {<<63, 240, 0, 0, 0, 0, 0, 0>>, <<192, 4, 0, 0, 0, 0, 0, 1>>}
           [] value_type.name = "rational" ->
                  {Fraction(BigOfInt(-1), BigOfInt(2)).val,
                   Fraction(BigShl1(63), BigOfInt(3)).val}
           [] value_type.name = "string" -> {<<>>, <<97>>, <<233, 8364>>}

VectorsOf(value_type, max_len) ==
    UNION {[1..n -> ElementsOf(value_type)] : n \in 0..max_len}

VectorInit ==
    /\ pc = "start"
    /\ \E value_type \in ElementTypes : \E vector \in VectorsOf(value_type, MaxVecLen) :
           arg = [op |-> "vector", type |-> value_type, value |-> vector, rest |-> <<>>]
    /\ enc = None
    /\ dec = None

\* vector_to_bytes(vector, value_type)
VectorToBytes ==
    /\ pc = "start" /\ arg.op = "vector"
    /\ enc' = vector_to_bytes(arg.value, arg.type)
    /\ pc' = "encoded"
    /\ UNCHANGED <<arg, dec>>

\* bytes_to_vector on the bytestring and the chunk ranges vector_to_bytes
\* returned
BytesToVector ==
    /\ pc = "encoded" /\ arg.op = "vector" /\ enc.err = ""
    /\ dec' = bytes_to_vector(enc.val[1], arg.type, enc.val[2])
    /\ pc' = "decoded"
    /\ UNCHANGED <<arg, enc>>

VectorNext == VectorToBytes \/ BytesToVector

SpecVector == VectorInit /\ [][VectorNext]_vars

\* C2: for every element type T and every vector V of values of T (the
\* empty vector and vectors of strings of any length, zero included),
\* decoding the payload that vector_to_bytes(V, T) returned with
\* bytes_to_vector, given the chunk ranges that vector_to_bytes returned,
\* yields V; for T = bool the decoded list equals V once truncated to len(V).
C2_VectorRoundTrip ==
    (arg.op = "vector" /\ pc \in {"encoded", "decoded"}) =>
        /\ enc.err = ""
        /\ (pc = "decoded" =>
               /\ dec.err = ""
               /\ IF ~arg.type.composite /\ arg.type.name = "bool"
                  THEN SubSeq(dec.val, 1, Len(arg.value)) = arg.value
                  ELSE dec.val = arg.value)

\* the vector [""] of strings was encoded as no bytes with the chunk ranges
\* [(0, 0)] and decoded as the empty vector
C2_EmptyStringVectorLost ==
    /\ arg.op = "vector" /\ pc = "decoded"
    /\ arg.type = TypeName("string") /\ arg.value = << <<>> >>
    /\ enc.val = <<<<>>, Some(<< <<0, 0>> >>)>>
    /\ dec.err = "" /\ dec.val = <<>>

\* some element's encoding differs in length from the standard size of the
\* element type
SomeEncodingNotStandard(vector, value_type) ==
    \E i \in 1..Len(vector) :
        Len(value_to_bytes(vector[i], value_type).val) # standard_value_type_size(value_type).val

MaxDataLen == 17

\* the payloads of one repeated byte
DataInputs == {[i \in 1..n |-> b] : n \in 0..MaxDataLen, b \in {0, 1, 255}}

\* element types of the vectors decoded without chunk ranges
PlainElementTypes == {TypeName(n) : n \in primitives \cup {"bool", "rational", "string"}}

DecodeInit ==
    /\ pc = "start"
    /\ enc = None
    /\ dec = None
    /\ \E data \in DataInputs :
           \/ \E t \in FixedIntTypes :
                  arg = [op |-> "decode_integer", type |-> t, value |-> data, rest |-> <<>>]
           \/ \E t \in PlainElementTypes :
                  arg = [op |-> "decode_vector", type |-> t, value |-> data, rest |-> <<>>]
           \/ \E t \in StructTypes(MaxFields) :
                  arg = [op |-> "decode_struct", type |-> t, value |-> data, rest |-> <<>>]

\* bytes_to_fixed_size_integer(data, value_type)
BytesToFixedSizeInteger ==
    /\ pc = "start" /\ arg.op = "decode_integer"
    /\ dec' = bytes_to_fixed_size_integer(arg.value, arg.type)
    /\ pc' = "decoded"
    /\ UNCHANGED <<arg, enc>>

\* bytes_to_vector(data, value_type) with chunk_ranges left at None
BytesToVectorNoRanges ==
    /\ pc = "start" /\ arg.op = "decode_vector"
    /\ dec' = bytes_to_vector(arg.value, arg.type, None)
    /\ pc' = "decoded"
    /\ UNCHANGED <<arg, enc>>

\* struct_unpack(bytestring, value_type): StructUnpacker(bytestring)
NewUnpackerOnData ==
    /\ pc = "start" /\ arg.op = "decode_struct"
    /\ dec' = [err |-> "", val |-> <<>>, self |-> StructUnpacker(arg.value), fields |-> 0]
    /\ pc' = "unpacking"
    /\ UNCHANGED <<arg, enc>>

DecodeNext ==
    \/ BytesToFixedSizeInteger
    \/ BytesToVectorNoRanges
    \/ NewUnpackerOnData \/ UnpackField \/ UnpackReturn

SpecDecode == DecodeInit /\ [][DecodeNext]_vars

\* every field of the layout has a size in bits
SizedLayout(value_type) ==
    \A i \in 1..Len(value_type) :
        value_type[i].kind = "padding" \/ value_type[i].size # NoSize

RECURSIVE LayoutBits(_, _)
\* bits of the first i fields of a sized layout
LayoutBits(value_type, i) ==
    IF i = 0 THEN 0
    ELSE LayoutBits(value_type, i - 1)
         + (IF value_type[i].kind = "padding" THEN value_type[i].padding
            ELSE value_type[i].size)

\* C11: every decoder raises an error, instead of returning a value, when
\* the length of its input is inconsistent with the claimed type: a
\* fixed-width integer decoder given a number of bytes other than the type's
\* size, a vector decoder without CSR given a payload whose length is not a
\* multiple of the element size, and struct_unpack given fewer or more bytes
\* than the struct layout consumes (for a layout of sized fields, any number
\* of bytes other than its size; for any layout, bytes left unread).
C11_DecodersCheckLength ==
    pc = "decoded" =>
        /\ (arg.op = "decode_integer"
               /\ Len(arg.value) # num_bytes_for_fixed_size_integer(arg.type))
           => dec.err # ""
        /\ (arg.op = "decode_vector"
               /\ arg.type.name \in primitives \cup {"rational"}
               /\ Len(arg.value) % standard_value_type_size(arg.type.name).val # 0)
           => dec.err # ""
        /\ (arg.op = "decode_struct"
               /\ SizedLayout(arg.type)
               /\ Len(arg.value) * 8 # LayoutBits(arg.type, Len(arg.type)))
           => dec.err # ""
        /\ (arg.op = "decode_struct" /\ dec.err = "") => dec.self.bytestring = <<>>

\* struct_unpack has returned a record for a one-byte layout from a payload
\* of two bytes, the second of which it never read
C11_TrailingByteIgnored ==
    /\ arg.op = "decode_struct" /\ pc = "decoded"
    /\ arg.type = <<StructAttribute("a", "bool", 1), StructPadding(7)>>
    /\ arg.value = <<1, 1>>
    /\ dec.err = "" /\ dec.val = [a |-> TRUE] /\ dec.self.bytestring = <<1>>

\* ==================================================== Python objects
\* An object is the function from the names of its attributes to their
\* values.  An attribute that may hold None holds None or Some(value).  A
\* dict whose order of insertion matters is the list of its (key, value)
\* pairs.  A value whose Python type the code inspects carries it: Value(type,
\* value) with type one of "bool", "int", "double", "rational", "string".

\* obj.name
GetAttr(obj, name) == IF name \in DOMAIN obj THEN Ok(obj[name]) ELSE Raise("AttributeError")

\* obj.name = value
SetAttr(obj, name, value) == DictSet(obj, name, value)

\* key in items
ItemsHas(items, key) == \E i \in 1..Len(items) : items[i][1] = key

\* items[key]
ItemsGet(items, key) == items[CHOOSE i \in 1..Len(items) : items[i][1] = key][2]

\* items[key] = value
ItemsSet(items, key, value) ==
    IF ItemsHas(items, key)
    THEN [i \in 1..Len(items) |-> IF items[i][1] = key THEN <<key, value>> ELSE items[i]]
    ELSE Append(items, <<key, value>>)

Value(type, value) == [type |-> type, value |-> value]

\* ---------------------------------------------------- umbi.datatypes.utils

get_instance_type(value) == value.type

\* isinstance(value, int): a bool is an int
IsInt(value) == value.type \in {"int", "bool"}

\* the int that an int or a bool is
PyInt(value) ==
    IF value.type = "bool" THEN (IF value.value THEN BigOne ELSE BigZero) ELSE value.value

\* the 53 or 54 significant bits of an int of more than 53 bits, rounded to
\* the nearest, ties to even
RoundedBits(bits) ==
    IF bits[54] = 1 /\ (bits[53] = 1 \/ \E i \in 55..Len(bits) : bits[i] = 1)
    THEN With(MagAdd(BitsToMag(SubSeq(bits, 1, 53)), <<1>>),
              LAMBDA m : BitsOfMag(m, MagBitLength(m)))
    ELSE SubSeq(bits, 1, 53)

\* float(value) of an int
FloatOfInt(x) ==
    IF x.mag = <<>> THEN Ok(<<0, 0, 0, 0, 0, 0, 0, 0>>)
    ELSE With(BitsOfMag(x.mag, MagBitLength(x.mag)), LAMBDA bits :
         With(IF Len(bits) <= 53 THEN bits \o [i \in 1..(53 - Len(bits)) |-> 0]
              ELSE RoundedBits(bits), LAMBDA m :
         With((Len(bits) - 1) + (Len(m) - 53), LAMBDA e :
             IF e > 1023 THEN Raise("OverflowError")
             ELSE double_unpack(<<IF x.neg THEN 1 ELSE 0>> \o BitsOfMag(NatMag(1023 + e), 11)
                                \o SubSeq(m, 2, 53)))))

\* Fraction.from_float(value): the exact value of a double
from_float(value) ==
    With((value[1] % 128) * 16 + (value[2] \div 16), LAMBDA e :
    With(<<value[8], value[7], value[6], value[5], value[4], value[3],
           (value[2] % 16) + (IF e = 0 THEN 0 ELSE 16)>>, LAMBDA m :
        IF e = 2047
        THEN Raise(IF MagNorm(m) = <<0, 0, 0, 0, 0, 0, 16>> THEN "OverflowError" ELSE "ValueError")
        ELSE With((IF e = 0 THEN 1 ELSE e) - 1075, LAMBDA exp :
                 IF exp >= 0
                 THEN Fraction(Big(value[1] >= 128,
                                   BitsToMag(BitsOfMag(m, 53) \o [i \in 1..exp |-> 0])),
                               BigOne)
                 ELSE Fraction(Big(value[1] >= 128, MagNorm(m)),
                               Big(FALSE, Pow2Mag(-exp))))))

promote_numeric_primitive(value, target_type) ==
    IF target_type = "int"
    THEN IF ~IsInt(value) THEN Raise("AssertionError") ELSE Ok(value)
    ELSE IF target_type = "double"
    THEN IF value.type = "double" THEN Ok(value)
         ELSE IF IsInt(value)
         THEN Then(FloatOfInt(PyInt(value)), LAMBDA x : Ok(Value("double", x)))
         ELSE Raise("AssertionError")
    ELSE IF target_type # "rational" THEN Raise("AssertionError")
    ELSE IF value.type = "rational" THEN Ok(value)
    ELSE IF IsInt(value)
    THEN Then(Fraction(PyInt(value), BigOne), LAMBDA q : Ok(Value("rational", q)))
    ELSE IF value.type = "double"
    THEN Then(from_float(value.value), LAMBDA q : Ok(Value("rational", q)))
    ELSE Raise("ValueError")

is_variable_size_integer_type(type) == type \in {"int", "uint"}

is_integer_type(type) == is_variable_size_integer_type(type) \/ is_fixed_size_integer_type(type)

is_interval_type(type) == type \in {"double-interval", "rational-interval"}

interval_base_type(type) == IF type = "double-interval" THEN "double" ELSE "rational"

is_numeric_type(type) ==
    is_integer_type(type)
    \/ type \in {"double", "rational", "double-interval", "rational-interval"}

\* an Interval is Value(the interval type, (left, right))
promote_numeric(value, target_type) ==
    IF ~is_interval_type(target_type)
    THEN IF is_interval_type(value.type) THEN Raise("AssertionError")
         ELSE promote_numeric_primitive(value, target_type)
    ELSE With(IF is_interval_type(value.type) THEN value.value ELSE <<value, value>>,
              LAMBDA ends :
         Then(promote_numeric_primitive(ends[1], interval_base_type(target_type)), LAMBDA left :
         Then(promote_numeric_primitive(ends[2], interval_base_type(target_type)), LAMBDA right :
             Ok(Value(target_type, <<left, right>>)))))

\* ---------------------------------------------------- umbi.datatypes.vector

vector_element_types(vector) == {get_instance_type(vector[i]) : i \in 1..Len(vector)}

RECURSIVE PromotedFrom(_, _, _)
\* the list comprehension of promote_to_vector_of_numeric, from position i on
PromotedFrom(vector, target_type, i) ==
    IF i > Len(vector) THEN Ok(<<>>)
    ELSE Then(promote_numeric(vector[i], target_type), LAMBDA elem :
         Then(PromotedFrom(vector, target_type, i + 1), LAMBDA rest :
             Ok(<<elem>> \o rest)))

promote_to_vector_of_numeric(vector, target_type) == PromotedFrom(vector, target_type, 1)

\* ------------------------------------------------- umbi.datatypes.promotion

\* a faulty variant of can_promote_numeric_to that does not look for a
\* rational beside a double-interval
can_promote_numeric_to_interval_first(types) ==
    IF types = {} THEN Raise("ValueError")
    ELSE IF \E t \in types : ~is_numeric_type(t) THEN Raise("ValueError")
    ELSE IF "rational-interval" \in types THEN Ok("rational-interval")
    ELSE IF "double-interval" \in types THEN Ok("double-interval")
    ELSE IF "rational" \in types THEN Ok("rational")
    ELSE IF "double" \in types THEN Ok("double")
    ELSE Ok("int")

can_promote_numeric_to(types) ==
    IF types = {} THEN Raise("ValueError")
    ELSE IF \E t \in types : ~is_numeric_type(t) THEN Raise("ValueError")
    ELSE IF "rational-interval" \in types THEN Ok("rational-interval")
    ELSE IF "double-interval" \in types
    THEN IF "rational" \in types THEN Ok("rational-interval") ELSE Ok("double-interval")
    ELSE IF "rational" \in types THEN Ok("rational")
    ELSE IF "double" \in types THEN Ok("double")
    ELSE Ok("int")

\* types.pop() of a set of one type is that type
can_promote_to(types) ==
    IF types = {} THEN Raise("ValueError")
    ELSE IF "string" \in types THEN Ok("string")
    ELSE IF Cardinality(types) = 1 THEN Ok(CHOOSE t \in types : TRUE)
    ELSE can_promote_numeric_to(types)

can_promote_vector_to(vector) ==
    IF Len(vector) = 0 THEN Ok("int") ELSE can_promote_numeric_to(vector_element_types(vector))

\* ------------------------------------------------------ umbi.ats.annotation
\* An annotation of the ATS: its class, its name and the optional lists of
\* values per state, per choice and per branch.

RewardAnnotation(name, state_to_value, choice_to_value, branch_to_value) ==
    [class |-> "RewardAnnotation", name |-> name, alias |-> None, description |-> None,
     state_to_value |-> state_to_value, choice_to_value |-> choice_to_value,
     branch_to_value |-> branch_to_value]

AtomicPropositionAnnotation(name, state_to_value, choice_to_value, branch_to_value) ==
    [class |-> "AtomicPropositionAnnotation", name |-> name, alias |-> None,
     description |-> None, state_to_value |-> state_to_value,
     choice_to_value |-> choice_to_value, branch_to_value |-> branch_to_value]

\* the list of (applies-to, values) of the mappings that are not None
Mappings(self) ==
    (IF self.state_to_value.none THEN <<>> ELSE <<<<"states", self.state_to_value.val>>>>)
    \o (IF self.choice_to_value.none THEN <<>> ELSE <<<<"choices", self.choice_to_value.val>>>>)
    \o (IF self.branch_to_value.none THEN <<>> ELSE <<<<"branches", self.branch_to_value.val>>>>)

\* Annotation.type
Annotation_type(self) ==
    With(UNION {vector_element_types(Mappings(self)[i][2]) : i \in 1..Len(Mappings(self))},
         LAMBDA types :
             IF types = {} THEN Raise("ValueError")
             ELSE IF Cardinality(types) = 1 THEN Ok(CHOOSE t \in types : TRUE)
             ELSE can_promote_numeric_to(types))

Annotation_validate(self) ==
    IF Len(Mappings(self)) = 0 THEN Raise("ValueError") ELSE Ok(TRUE)

RewardAnnotation_validate(self) ==
    Then(Annotation_validate(self), LAMBDA valid :
    Then(Annotation_type(self), LAMBDA type :
        IF ~is_numeric_type(type) THEN Raise("ValueError") ELSE Ok(TRUE)))

AtomicPropositionAnnotation_validate(self) ==
    Then(Annotation_validate(self), LAMBDA valid :
    Then(Annotation_type(self), LAMBDA type :
        IF type # "bool" THEN Raise("ValueError") ELSE Ok(TRUE)))

RECURSIVE AnnotationsValidFrom(_, _)
\* the loops of ExplicitAts.validate over the values of an annotation dict
AnnotationsValidFrom(annotations, i) ==
    IF i > Len(annotations) THEN Ok(TRUE)
    ELSE Then(IF annotations[i][2].class = "RewardAnnotation"
              THEN RewardAnnotation_validate(annotations[i][2])
              ELSE AtomicPropositionAnnotation_validate(annotations[i][2]),
              LAMBDA valid : AnnotationsValidFrom(annotations, i + 1))

\* --------------------------------------------- umbi.ats.variable_valuations
\* The collection of the valuations of an ATS.  The model draws collections
\* without variables, whose validate() has no variable to check.

ItemValuations(num_items) ==
    [class |-> "ItemValuations", num_items |-> num_items, variables |-> <<>>]

num_variables(self) == Len(self.variables)

\* Variable(name)
Variable(name) == [name |-> name, domain |-> None, type |-> None]

\* VariableValuations(variable)
VariableValuations(variable) == [variable |-> variable, values |-> <<>>]

\* the value None in a list of values; get_instance_type(None) is JSON
PyNone == Value("json", [json |-> "null"])

\* sorted(set(values)) of ints, or of one value
SortedSet(values) ==
    With({values[i] : i \in 1..Len(values)}, LAMBDA set :
        CHOOSE sorted \in [1..Cardinality(set) -> set] :
            \A i, j \in 1..Cardinality(set) :
                i < j => IntOfBig(PyInt(sorted[i])) < IntOfBig(PyInt(sorted[j])))

\* Variable.sync_domain: the variable after it, or the error it raises;
\* sorted() raises TypeError when it compares None with another value
Variable_sync_domain(self, values) ==
    IF Len(values) = 0 THEN Raise("TypeError")
    ELSE IF PyNone \in {values[i] : i \in 1..Len(values)}
            /\ \E i \in 1..Len(values) : values[i] # PyNone
    THEN Raise("TypeError")
    ELSE With(vector_element_types(values), LAMBDA types :
         Then(IF Cardinality(types) = 1 THEN Ok(CHOOSE t \in types : TRUE)
              ELSE can_promote_numeric_to(types), LAMBDA type :
             Ok([self EXCEPT !.domain = Some(SortedSet(values)), !.type = Some(type)])))

\* Variable.validate
Variable_validate(self) ==
    IF self.domain.none THEN Ok(TRUE)
    ELSE IF self.type.none THEN Raise("AssertionError")
    ELSE IF self.type.val \notin {"bool", "int", "double", "rational", "string"}
    THEN Raise("ValueError")
    ELSE Ok(TRUE)

\* a call on an object that may have changed it before it raised: the error,
\* or "", and the object after the call
Called(err, self) == [err |-> err, self |-> self]

RECURSIVE SyncDomainsFrom(_, _)
\* the loop of ItemValuations.sync_domains, from variable i on
SyncDomainsFrom(self, i) ==
    IF i > Len(self.variables) THEN Called("", self)
    ELSE With(Variable_sync_domain(self.variables[i].variable, self.variables[i].values),
              LAMBDA synced :
        IF synced.err # "" THEN Called(synced.err, self)
        ELSE SyncDomainsFrom([self EXCEPT !.variables[i].variable = synced.val], i + 1))

RECURSIVE ValidateVariablesFrom(_, _)
\* the last loop of ItemValuations.validate, from variable i on
ValidateVariablesFrom(self, i) ==
    IF i > Len(self.variables) THEN Called("", self)
    ELSE IF Len(self.variables[i].values) # self.num_items THEN Called("ValueError", self)
    ELSE With(Variable_sync_domain(self.variables[i].variable, self.variables[i].values),
              LAMBDA synced :
        IF synced.err # "" THEN Called(synced.err, self)
        ELSE With([self EXCEPT !.variables[i].variable = synced.val], LAMBDA next :
            IF Variable_validate(synced.val).err # ""
            THEN Called(Variable_validate(synced.val).err, next)
            ELSE ValidateVariablesFrom(next, i + 1)))

\* ItemValuations.validate: the error it raised, if any, and the object
\* after the call
ItemValuations_validated(self) ==
    With(SyncDomainsFrom(self, 1), LAMBDA synced :
        IF synced.err # "" THEN synced ELSE ValidateVariablesFrom(synced.self, 1))

ItemValuations_validate(self) ==
    IF ItemValuations_validated(self).err # "" THEN Raise(ItemValuations_validated(self).err)
    ELSE Ok(TRUE)

\* ------------------------------------------------------ umbi.ats.explicit_ats

\* ExplicitAts(): the fields of the dataclass with their defaults
ExplicitAts ==
    [model_info |-> None, time |-> "discrete", num_states |-> 0,
     num_players |-> 0, state_to_player |-> None,
     num_initial_states |-> 0, state_is_initial |-> Some(<<>>),
     num_choices |-> 0, state_to_choice |-> None,
     num_branches |-> 0, choice_to_branch |-> None, branch_to_target |-> None,
     branch_probabilities |-> None,
     state_is_markovian |-> None, state_exit_rate |-> None,
     num_actions |-> 0, choice_to_action |-> None, action_strings |-> None,
     num_branch_actions |-> 0, branch_to_branch_action |-> None,
     branch_action_strings |-> None,
     reward_annotations |-> <<>>, ap_annotations |-> <<>>,
     observation_annotation |-> None,
     state_valuations |-> Some(ItemValuations(0))]

\* __dataclass_fields__
ExplicitAtsFields ==
    <<"model_info", "time", "num_states", "num_players", "state_to_player",
      "num_initial_states", "state_is_initial", "num_choices", "state_to_choice",
      "num_branches", "choice_to_branch", "branch_to_target", "branch_probabilities",
      "state_is_markovian", "state_exit_rate", "num_actions", "choice_to_action",
      "action_strings", "num_branch_actions", "branch_to_branch_action",
      "branch_action_strings", "reward_annotations", "ap_annotations",
      "observation_annotation", "state_valuations">>

\* a number as the exact fraction it stands for
Exact(value) ==
    IF IsInt(value) THEN Fraction(PyInt(value), BigOne)
    ELSE IF value.type = "double" THEN from_float(value.value)
    ELSE Ok(value.value)

IsNumber(value) == value.type \in {"bool", "int", "double", "rational"}

\* a == b on two values: numbers compare by value, whatever their types
PyEq(a, b) ==
    IF IsNumber(a) /\ IsNumber(b)
    THEN With(Exact(a), LAMBDA x : With(Exact(b), LAMBDA y :
             IF x.err = "" /\ y.err = "" THEN x.val = y.val
             ELSE x.err = "OverflowError" /\ y.err = "OverflowError" /\ a.value = b.value))
    ELSE a.type = b.type /\ a.value = b.value

\* a == b on two lists of values, or None
ListEq(a, b) ==
    IF a.none \/ b.none THEN a.none = b.none
    ELSE Len(a.val) = Len(b.val) /\ \A i \in 1..Len(a.val) : PyEq(a.val[i], b.val[i])

\* Annotation.__eq__
AnnotationEq(a, b) ==
    /\ a.name = b.name /\ a.alias = b.alias /\ a.description = b.description
    /\ ListEq(a.state_to_value, b.state_to_value)
    /\ ListEq(a.choice_to_value, b.choice_to_value)
    /\ ListEq(a.branch_to_value, b.branch_to_value)

\* a == b on two dicts of annotations
AnnotationsEq(a, b) ==
    /\ Len(a) = Len(b)
    /\ \A i \in 1..Len(a) :
           ItemsHas(b, a[i][1]) /\ AnnotationEq(a[i][2], ItemsGet(b, a[i][1]))

\* ItemValuations.__eq__, or the default == when a side is no ItemValuations
ItemValuationsEq(a, b) ==
    IF a.none \/ b.none THEN a.none /\ b.none
    ELSE IF a.val.class = "ItemValuations" /\ b.val.class = "ItemValuations"
    THEN a.val.num_items = b.val.num_items
    ELSE a = b

\* getattr(self, field_name) == getattr(other, field_name)
FieldEq(field_name, a, b) ==
    CASE field_name \in {"branch_probabilities", "state_exit_rate"} -> ListEq(a, b)
      [] field_name \in {"reward_annotations", "ap_annotations"} -> AnnotationsEq(a, b)
      [] field_name = "state_valuations" -> ItemValuationsEq(a, b)
      [] OTHER -> a = b

equal(self, other) ==
    \A i \in 1..Len(ExplicitAtsFields) :
        FieldEq(ExplicitAtsFields[i], self[ExplicitAtsFields[i]], other[ExplicitAtsFields[i]])

\* the property initial_states
initial_states(self) ==
    {i \in 1..Len(self.state_is_initial.val) : self.state_is_initial.val[i]}

\* the property branch_probability_type
branch_probability_type(self) ==
    IF self.branch_probabilities.none THEN Ok(None)
    ELSE Then(can_promote_vector_to(self.branch_probabilities.val), LAMBDA type : Ok(Some(type)))

\* the property exit_rate_type
exit_rate_type(self) ==
    IF self.state_exit_rate.none THEN Ok(None)
    ELSE Then(can_promote_vector_to(self.state_exit_rate.val), LAMBDA type : Ok(Some(type)))

\* the property has_state_valuations
has_state_valuations(self) ==
    IF self.state_valuations.none THEN Raise("AttributeError")
    ELSE IF self.state_valuations.val.class # "ItemValuations" THEN Raise("AttributeError")
    ELSE Ok(num_variables(self.state_valuations.val) > 0)

\* ExplicitAts.validate; observation_annotation is None in every ATS drawn
\* here, so its validate() is not called
validate(self) ==
    IF ~(self.num_states > 0) THEN Raise("ValueError")
    ELSE IF self.num_players > 1 /\ self.state_to_player.none THEN Raise("ValueError")
    ELSE IF self.num_players > 1 /\ Len(self.state_to_player.val) # self.num_states
    THEN Raise("ValueError")
    ELSE IF self.state_is_initial.none THEN Raise("TypeError")
    ELSE IF Len(self.state_is_initial.val) # self.num_states THEN Raise("ValueError")
    ELSE IF self.num_initial_states # Cardinality(initial_states(self)) THEN Raise("ValueError")
    ELSE IF ~self.state_to_choice.none /\ Len(self.state_to_choice.val) # self.num_states + 1
    THEN Raise("ValueError")
    ELSE IF ~self.choice_to_branch.none /\ Len(self.choice_to_branch.val) # self.num_choices + 1
    THEN Raise("ValueError")
    ELSE IF ~self.branch_to_target.none /\ Len(self.branch_to_target.val) # self.num_branches
    THEN Raise("ValueError")
    ELSE Then(AnnotationsValidFrom(self.reward_annotations, 1), LAMBDA rewards_valid :
         Then(AnnotationsValidFrom(self.ap_annotations, 1), LAMBDA aps_valid :
         Then(has_state_valuations(self), LAMBDA has_valuations :
             IF ~has_valuations THEN Ok(TRUE)
             ELSE IF self.state_valuations.val.num_items # self.num_states
             THEN Raise("ValueError")
             ELSE ItemValuations_validate(self.state_valuations.val))))

\* ==================================================== the index (manifest)
\* A JSON value carries its kind: null, a number, a string, a list, or a
\* dict, which is the list of its (key, value) pairs.  The member index.json
\* of an archive is kept as the JSON value that its text denotes.

JNull == [json |-> "null"]

JNumber(value) == [json |-> "number", value |-> value]

JString(value) == [json |-> "string", value |-> value]

JList(value) == [json |-> "list", value |-> value]

JDict(items) == [json |-> "dict", value |-> items]

RECURSIVE json_remove_none_dict_values_not_in_lists(_)
\* a faulty variant of json_remove_none_dict_values that returns a list as
\* it is
json_remove_none_dict_values_not_in_lists(json_obj) ==
    IF json_obj.json = "dict"
    THEN With(SelectSeq(json_obj.value, LAMBDA item : item[2].json # "null"), LAMBDA items :
             JDict([i \in 1..Len(items) |->
                       <<items[i][1], json_remove_none_dict_values_not_in_lists(items[i][2])>>]))
    ELSE json_obj

RECURSIVE json_remove_none_dict_values(_)
json_remove_none_dict_values(json_obj) ==
    IF json_obj.json = "dict"
    THEN With(SelectSeq(json_obj.value, LAMBDA item : item[2].json # "null"), LAMBDA items :
             JDict([i \in 1..Len(items) |->
                       <<items[i][1], json_remove_none_dict_values(items[i][2])>>]))
    ELSE IF json_obj.json = "list"
    THEN JList([i \in 1..Len(json_obj.value) |->
                   json_remove_none_dict_values(json_obj.value[i])])
    ELSE json_obj

\* -------------------------------------------- umbi.io.index: the flat schemas
\* A field of a schema: the attribute it fills, its key in the JSON dict, its
\* marshmallow type ("uint" is FieldUint, "int" has a Range(min), "string"
\* and "strings" may have a OneOf(choices), "strings" has a Length(min)) and
\* whether it is required.  An attribute of a required field holds the value,
\* an attribute of an optional field holds None or Some(value).

SchemaField(attribute, data_key, type, required, min, choices) ==
    [attribute |-> attribute, data_key |-> data_key, type |-> type,
     required |-> required, min |-> min, choices |-> choices]

ModelDataSchema ==
    <<SchemaField("name", "name", "string", FALSE, 0, {}),
      SchemaField("version", "version", "string", FALSE, 0, {}),
      SchemaField("authors", "authors", "strings", FALSE, 0, {}),
      SchemaField("description", "description", "string", FALSE, 0, {}),
      SchemaField("comment", "comment", "string", FALSE, 0, {}),
      SchemaField("doi", "doi", "string", FALSE, 0, {}),
      SchemaField("url", "url", "string", FALSE, 0, {})>>

FileDataSchema ==
    <<SchemaField("tool", "tool", "string", FALSE, 0, {}),
      SchemaField("tool_version", "tool-version", "string", FALSE, 0, {}),
      SchemaField("creation_date", "creation-date", "uint", FALSE, 0, {}),
      SchemaField("parameters", "parameters", "raw", FALSE, 0, {})>>

NumericTypeNames == {"double", "rational", "double-interval", "rational-interval"}

TransitionSystemSchema ==
    <<SchemaField("time", "time", "string", TRUE, 0,
                  {"discrete", "stochastic", "urgent-stochastic"}),
      SchemaField("num_players", "#players", "int", TRUE, 0, {}),
      SchemaField("num_states", "#states", "int", TRUE, 1, {}),
      SchemaField("num_initial_states", "#initial-states", "int", TRUE, 0, {}),
      SchemaField("num_choices", "#choices", "int", TRUE, 1, {}),
      SchemaField("num_actions", "#choice-actions", "int", TRUE, 0, {}),
      SchemaField("num_branches", "#branches", "int", TRUE, 0, {}),
      SchemaField("num_branch_actions", "#branch-actions", "int", TRUE, 0, {}),
      SchemaField("num_observations", "#observations", "int", TRUE, 0, {}),
      SchemaField("observations_apply_to", "observations-apply-to", "string", FALSE, 0,
                  {"states", "choices", "branches"}),
      SchemaField("branch_probability_type", "branch-probability-type", "string", FALSE, 0,
                  NumericTypeNames),
      SchemaField("exit_rate_type", "exit-rate-type", "string", FALSE, 0, NumericTypeNames)>>

AnnotationSchema ==
    <<SchemaField("alias", "alias", "string", FALSE, 0, {}),
      SchemaField("description", "description", "string", FALSE, 0, {}),
      SchemaField("applies_to", "applies-to", "strings", FALSE, 1,
                  {"states", "choices", "branches"}),
      SchemaField("type", "type", "string", FALSE, 0,
                  {"bool", "double", "rational", "double-interval", "rational-interval",
                   "string"}),
      SchemaField("lower", "lower", "float", FALSE, 0, {}),
      SchemaField("upper", "upper", "float", FALSE, 0, {})>>

\* the serialization of the value of a field
FieldToJson(field, value) ==
    CASE field.type = "string" -> JString(value)
      [] field.type = "strings" -> JList([i \in 1..Len(value) |-> JString(value[i])])
      [] field.type = "raw" -> value
      [] OTHER -> JNumber(value)

\* Schema.dump of an object, a null for every attribute that is None
SchemaDump(schema, obj) ==
    JDict([i \in 1..Len(schema) |->
              <<schema[i].data_key,
                IF schema[i].required THEN FieldToJson(schema[i], obj[schema[i].attribute])
                ELSE IF obj[schema[i].attribute].none THEN JNull
                ELSE FieldToJson(schema[i], obj[schema[i].attribute].val)>>])

\* the deserialization and the validators of a field accept the JSON value
FieldValid(field, j) ==
    CASE field.type = "string" ->
             j.json = "string" /\ (field.choices = {} \/ j.value \in field.choices)
      [] field.type = "strings" ->
             /\ j.json = "list" /\ Len(j.value) >= field.min
             /\ \A i \in 1..Len(j.value) :
                    /\ j.value[i].json = "string"
                    /\ (field.choices = {} \/ j.value[i].value \in field.choices)
      [] field.type = "raw" -> j.json # "null"
      [] field.type = "float" -> j.json = "number"
      [] OTHER -> j.json = "number" /\ j.value >= field.min

FieldFromJson(field, j) ==
    CASE field.type = "strings" -> [i \in 1..Len(j.value) |-> j.value[i].value]
      [] field.type = "raw" -> j
      [] OTHER -> j.value

SchemaValid(schema, d) ==
    /\ d.json = "dict"
    /\ \A i \in 1..Len(schema) :
           IF ItemsHas(d.value, schema[i].data_key)
           THEN FieldValid(schema[i], ItemsGet(d.value, schema[i].data_key))
           ELSE ~schema[i].required

\* the attribute that make_object sets for a field: data.get(field, None)
LoadedField(field, d) ==
    IF ~ItemsHas(d.value, field.data_key) THEN None
    ELSE IF field.required THEN FieldFromJson(field, ItemsGet(d.value, field.data_key))
    ELSE Some(FieldFromJson(field, ItemsGet(d.value, field.data_key)))

\* Schema.load of a JSON value and make_object
SchemaLoad(schema, d) ==
    IF ~SchemaValid(schema, d) THEN Raise("ValidationError")
    ELSE Ok([attribute \in {schema[i].attribute : i \in 1..Len(schema)} |->
                LoadedField(schema[CHOOSE i \in 1..Len(schema) :
                                       schema[i].attribute = attribute], d)])

\* ------------------------------------------------ umbi.io.index.annotations

Annotation(alias, description, applies_to, type, lower, upper) ==
    [alias |-> alias, description |-> description, applies_to |-> applies_to,
     type |-> type, lower |-> lower, upper |-> upper]

Annotations(rewards, aps) == [rewards |-> rewards, aps |-> aps]

\* the serialization of a dict name -> Annotation, or of None
AnnotationDictToJson(name_annotation) ==
    IF name_annotation.none THEN JNull
    ELSE JDict([i \in 1..Len(name_annotation.val) |->
                   <<name_annotation.val[i][1],
                     SchemaDump(AnnotationSchema, name_annotation.val[i][2])>>])

AnnotationsSchema_dump(obj) ==
    JDict(<<<<"rewards", AnnotationDictToJson(obj.rewards)>>,
            <<"aps", AnnotationDictToJson(obj.aps)>>>>)

AnnotationDictValid(d, key) ==
    IF ~ItemsHas(d.value, key) THEN TRUE
    ELSE With(ItemsGet(d.value, key), LAMBDA j :
             /\ j.json = "dict"
             /\ \A i \in 1..Len(j.value) : SchemaValid(AnnotationSchema, j.value[i][2]))

AnnotationDictFromJson(d, key) ==
    IF ~ItemsHas(d.value, key) THEN None
    ELSE With(ItemsGet(d.value, key).value, LAMBDA items :
             Some([i \in 1..Len(items) |->
                      <<items[i][1], SchemaLoad(AnnotationSchema, items[i][2]).val>>]))

AnnotationsSchema_load(d) ==
    IF d.json # "dict" THEN Raise("ValidationError")
    ELSE IF ~(AnnotationDictValid(d, "rewards") /\ AnnotationDictValid(d, "aps"))
    THEN Raise("ValidationError")
    ELSE Ok(Annotations(AnnotationDictFromJson(d, "rewards"), AnnotationDictFromJson(d, "aps")))

\* ------------------------------------------ umbi.io.index.variable_valuations

StructType(alignment, fields) ==
    [class |-> "StructType", alignment |-> alignment, fields |-> fields]

ValuationAttributeSchema ==
    <<SchemaField("name", "name", "string", TRUE, 0, {}),
      SchemaField("type", "type", "string", TRUE, 0,
                  {"bool", "int", "uint", "double", "rational", "string"}),
      SchemaField("size", "size", "uint", FALSE, 0, {}),
      SchemaField("lower", "lower", "float", FALSE, 0, {}),
      SchemaField("upper", "upper", "float", FALSE, 0, {}),
      SchemaField("offset", "offset", "float", FALSE, 0, {})>>

ValuationPaddingSchema == <<SchemaField("padding", "padding", "uint", TRUE, 0, {})>>

\* the dict of a field of a struct type
ValuationFieldToJson(field) ==
    IF field.kind = "padding" THEN JDict(<<<<"padding", JNumber(field.padding)>>>>)
    ELSE JDict(<<<<"name", JString(field.name)>>, <<"type", JString(field.type)>>,
                 <<"size", IF field.size = NoSize THEN JNull ELSE JNumber(field.size)>>,
                 <<"lower", JNull>>, <<"upper", JNull>>, <<"offset", JNull>>>>)

\* VariableValuationsSchema.dump asserts that it is given a StructType and
\* that a field that is no StructPadding is a StructAttribute
VariableValuationsSchema_dump(obj) ==
    IF obj.class # "StructType" THEN Raise("AssertionError")
    ELSE IF \E i \in 1..Len(obj.fields) : obj.fields[i].kind \notin {"padding", "attribute"}
    THEN Raise("AssertionError")
    ELSE Ok(JDict(<<<<"alignment", JNumber(obj.alignment)>>,
                    <<"variables", JList([i \in 1..Len(obj.fields) |->
                                             ValuationFieldToJson(obj.fields[i])])>>>>))

\* ValuationFieldSchema.load picks the schema by the key "padding"
ValuationFieldValid(j) ==
    /\ j.json = "dict"
    /\ IF ItemsHas(j.value, "padding") THEN SchemaValid(ValuationPaddingSchema, j)
       ELSE SchemaValid(ValuationAttributeSchema, j)

\* the loaded field: a StructAttribute, or what the padding schema loaded
ValuationFieldFromJson(j) ==
    IF ItemsHas(j.value, "padding")
    THEN [kind |-> "dict", padding |-> ItemsGet(j.value, "padding").value]
    ELSE StructAttribute(ItemsGet(j.value, "name").value, ItemsGet(j.value, "type").value,
                         IF ItemsHas(j.value, "size") THEN ItemsGet(j.value, "size").value
                         ELSE NoSize)

VariableValuationsSchema_load(d) ==
    IF d.json # "dict" THEN Raise("ValidationError")
    ELSE IF ~(ItemsHas(d.value, "alignment") /\ ItemsHas(d.value, "variables"))
    THEN Raise("ValidationError")
    ELSE With(ItemsGet(d.value, "alignment"), LAMBDA alignment :
         With(ItemsGet(d.value, "variables"), LAMBDA variables :
             IF ~(alignment.json = "number" /\ alignment.value >= 0) THEN Raise("ValidationError")
             ELSE IF variables.json # "list" THEN Raise("ValidationError")
             ELSE IF \E i \in 1..Len(variables.value) : ~ValuationFieldValid(variables.value[i])
             THEN Raise("ValidationError")
             ELSE Ok(StructType(alignment.value,
                                [i \in 1..Len(variables.value) |->
                                    ValuationFieldFromJson(variables.value[i])]))))

\* --------------------------------------------------- umbi.io.index.umb_index

\* UmbIndex(): the fields of the dataclass
UmbIndex(format_version, format_revision, model_data, file_data, transition_system, annotations, state_valuations) ==
    [format_version |-> format_version, format_revision |-> format_revision,
     model_data |-> model_data, file_data |-> file_data,
     transition_system |-> transition_system, annotations |-> annotations,
     state_valuations |-> state_valuations]

\* the serialization of a nested object, or of None
NestedToJson(obj, Dump(_)) == IF obj.none THEN JNull ELSE Dump(obj.val)

UmbIndexSchema_dump(obj) ==
    Then(IF obj.state_valuations.none THEN Ok(JNull)
         ELSE VariableValuationsSchema_dump(obj.state_valuations.val), LAMBDA state_valuations :
        Ok(JDict(<<<<"format-version", JNumber(obj.format_version)>>,
                   <<"format-revision", JNumber(obj.format_revision)>>,
                   <<"model-data",
                     NestedToJson(obj.model_data, LAMBDA o : SchemaDump(ModelDataSchema, o))>>,
                   <<"file-data",
                     NestedToJson(obj.file_data, LAMBDA o : SchemaDump(FileDataSchema, o))>>,
                   <<"transition-system",
                     SchemaDump(TransitionSystemSchema, obj.transition_system)>>,
                   <<"annotations", NestedToJson(obj.annotations, AnnotationsSchema_dump)>>,
                   <<"state-valuations", state_valuations>>>>)))

\* the load of an optional nested object
NestedFromJson(d, key, Load(_)) ==
    IF ~ItemsHas(d.value, key) THEN Ok(None)
    ELSE Then(Load(ItemsGet(d.value, key)), LAMBDA obj : Ok(Some(obj)))

\* the keys of the fields of UmbIndexSchema
UmbIndexKeys ==
    {"format-version", "format-revision", "model-data", "file-data", "transition-system",
     "annotations", "state-valuations"}

\* JsonSchema.make_object: the keys that it warns of as unrecognized fields
extra_fields(d) ==
    IF d.json # "dict" THEN {}
    ELSE {d.value[i][1] : i \in 1..Len(d.value)} \ UmbIndexKeys

UmbIndexSchema_load(d) ==
    IF d.json # "dict" THEN Raise("ValidationError")
    ELSE IF ~SchemaValid(<<SchemaField("format_version", "format-version", "uint", TRUE, 0, {}),
                           SchemaField("format_revision", "format-revision", "uint", TRUE, 0, {})>>,
                         d)
    THEN Raise("ValidationError")
    ELSE IF ~ItemsHas(d.value, "transition-system") THEN Raise("ValidationError")
    ELSE Then(NestedFromJson(d, "model-data", LAMBDA j : SchemaLoad(ModelDataSchema, j)),
              LAMBDA model_data :
         Then(NestedFromJson(d, "file-data", LAMBDA j : SchemaLoad(FileDataSchema, j)),
              LAMBDA file_data :
         Then(SchemaLoad(TransitionSystemSchema, ItemsGet(d.value, "transition-system")),
              LAMBDA transition_system :
         Then(NestedFromJson(d, "annotations", AnnotationsSchema_load), LAMBDA annotations :
         Then(NestedFromJson(d, "state-valuations", VariableValuationsSchema_load),
              LAMBDA state_valuations :
             Ok(UmbIndex(ItemsGet(d.value, "format-version").value,
                         ItemsGet(d.value, "format-revision").value,
                         model_data, file_data, transition_system, annotations,
                         state_valuations)))))))

\* ------------------------------------------------- umbi.io.index.json_schema

to_json(self) == Then(UmbIndexSchema_dump(self), LAMBDA j : Ok(json_remove_none_dict_values(j)))

from_json(json_obj) == UmbIndexSchema_load(json_obj)

JsonSchemaResult_validate(self) == Then(to_json(self), LAMBDA j : from_json(j))

\* ============================================================ umbi.io.umb
\* A file type is CommonType.BYTES, CommonType.JSON or a VectorType.

VectorType(base_type) == [vector |-> TRUE, base_type |-> base_type]

FileType(name) == [vector |-> FALSE, name |-> name]

VECTOR_TYPE_BITVECTOR == VectorType("bool")

VECTOR_TYPE_CSR == VectorType("uint64")

\* the members of UmbFile: (filename, filetype)
INDEX_JSON == <<"index.json", FileType("json")>>

STATE_IS_INITIAL == <<"initial-states.bin", VECTOR_TYPE_BITVECTOR>>

STATE_TO_CHOICE == <<"state-to-choice.bin", VECTOR_TYPE_CSR>>

STATE_TO_PLAYER == <<"state-to-player.bin", VectorType("uint32")>>

STATE_IS_MARKOVIAN == <<"markovian-states.bin", VECTOR_TYPE_BITVECTOR>>

STATE_TO_EXIT_RATE == <<"exit-rates.bin", FileType("bytes")>>

STATE_TO_EXIT_RATE_CSR == <<"state-to-exit-rate.bin", VECTOR_TYPE_CSR>>

CHOICE_TO_BRANCH == <<"choice-to-branch.bin", VECTOR_TYPE_CSR>>

BRANCH_TO_TARGET == <<"branch-to-target.bin", VectorType("uint64")>>

BRANCH_TO_PROBABILITY == <<"branch-probabilities.bin", FileType("bytes")>>

BRANCH_TO_PROBABILITY_CSR == <<"branch-to-probability.bin", VECTOR_TYPE_CSR>>

CHOICE_TO_ACTION == <<"choice-to-choice-action.bin", VectorType("uint32")>>

ACTION_TO_STRING == <<"choice-action-strings.bin", VectorType("string")>>

ACTION_TO_STRING_CSR == <<"choice-action-to-string.bin", VECTOR_TYPE_CSR>>

BRANCH_TO_BRANCH_ACTION == <<"branch-to-branch-action.bin", VectorType("uint32")>>

BRANCH_ACTION_TO_STRING == <<"branch-action-strings.bin", VectorType("string")>>

BRANCH_ACTION_TO_STRING_CSR == <<"branch-action-to-string.bin", VECTOR_TYPE_CSR>>

STATE_TO_VALUATION == <<"state-valuations.bin", FileType("bytes")>>

STATE_TO_VALUATION_CSR == <<"state-to-valuation.bin", VECTOR_TYPE_CSR>>

STATE_TO_OBSERVATION == <<"state-to-observation.bin", VectorType("uint64")>>

CHOICE_TO_OBSERVATION == <<"choice-to-observation.bin", VectorType("uint64")>>

BRANCH_TO_OBSERVATION == <<"branch-to-observation.bin", VectorType("uint64")>>

\* the file of the observations of the items that apply_to names
ObservationFile(apply_to) ==
    CASE apply_to = "states" -> STATE_TO_OBSERVATION
      [] apply_to = "choices" -> CHOICE_TO_OBSERVATION
      [] apply_to = "branches" -> BRANCH_TO_OBSERVATION

\* TransitionSystem(): the fields of the dataclass with their defaults
TransitionSystem ==
    [time |-> "discrete", num_players |-> 0, num_states |-> 0, num_initial_states |-> 0,
     num_choices |-> 0, num_actions |-> 0, num_branches |-> 0, num_branch_actions |-> 0,
     num_observations |-> 0, observations_apply_to |-> None,
     branch_probability_type |-> None, exit_rate_type |-> None]

\* ExplicitUmb(): the fields of the dataclass with their defaults
ExplicitUmb ==
    [index |-> UmbIndex(0, 0, None, None, TransitionSystem, None, None),
     state_is_initial |-> Some(<<>>), state_to_choice |-> None, state_to_player |-> None,
     state_is_markovian |-> None, state_to_exit_rate |-> None,
     choice_to_branch |-> None, branch_to_target |-> None, branch_to_probability |-> None,
     choice_to_action |-> None, action_to_string |-> None,
     branch_to_branch_action |-> None, branch_action_to_string |-> None,
     rewards |-> None, aps |-> None, item_to_observation |-> None,
     state_to_valuation |-> None]

ExplicitUmb_validate(self) == JsonSchemaResult_validate(self.index)

\* ------------------------------------------------------------ umbi.io.tar
\* The files of an archive are the function from their names to their
\* contents.  The model keeps an index of a list as a number and a numeric
\* with its type; the codec takes Python ints and bare values.

CodecValues(data, value_type) ==
    IF value_type \in {"uint32", "uint64"} THEN [i \in 1..Len(data) |-> BigOfInt(data[i])]
    ELSE IF value_type \in {"double", "rational"} THEN [i \in 1..Len(data) |-> data[i].value]
    ELSE data

ModelValues(values, value_type) ==
    IF value_type \in {"uint32", "uint64"} THEN [i \in 1..Len(values) |-> IntOfBig(values[i])]
    ELSE IF value_type \in {"double", "rational"}
    THEN [i \in 1..Len(values) |-> Value(value_type, values[i])]
    ELSE values

\* TarWriter(): no file yet
TarWriter == <<>>

add_file(self, filename, data) == DictSet(self, filename, data)

add_filetype(self, filename, filetype, data, required) ==
    IF data.none THEN (IF required THEN Raise("ValueError") ELSE Ok(self))
    ELSE IF ~filetype.vector THEN Ok(add_file(self, filename, data.val))
    ELSE Then(vector_to_bytes(CodecValues(data.val, filetype.base_type),
                              TypeName(filetype.base_type)), LAMBDA out :
             IF ~out[2].none THEN Raise("AssertionError")
             ELSE Ok(add_file(self, filename, out[1])))

add_filetype_with_csr(self, filename, value_type, data, required, filename_csr) ==
    IF data.none THEN (IF required THEN Raise("ValueError") ELSE Ok(self))
    ELSE Then(vector_to_bytes(CodecValues(data.val, value_type), TypeName(value_type)),
              LAMBDA out :
             IF out[2].none THEN Ok(add_file(self, filename, out[1]))
             ELSE Then(ranges_to_csr(out[2].val), LAMBDA csr :
                  Then(vector_to_bytes(CodecValues(csr, "uint64"), TypeName("uint64")),
                       LAMBDA out_csr :
                      IF ~out_csr[2].none THEN Raise("AssertionError")
                      ELSE Ok(add_file(add_file(self, filename, out[1]),
                                       filename_csr, out_csr[1])))))

\* ------------------------------------------------------------- UmbWriter

add_common(self, file, data, required) == add_filetype(self, file[1], file[2], data, required)

\* value_type = None stands for the default of the parameter
add_common_csr(self, file, data, file_csr, required, value_type) ==
    IF value_type.none /\ ~file[2].vector THEN Raise("AssertionError")
    ELSE add_filetype_with_csr(self, file[1],
                               IF value_type.none THEN file[2].base_type ELSE value_type.val,
                               data, required, file_csr[1])

add_index(self, file, index) ==
    Then(JsonSchemaResult_validate(index), LAMBDA valid :
    Then(to_json(index), LAMBDA json_obj : add_common(self, file, Some(json_obj), TRUE)))

\* the values of an annotation as the codec takes them
AnnotationData(values, annotation_type) ==
    IF annotation_type \in {"bool", "string"} THEN [i \in 1..Len(values) |-> values[i].value]
    ELSE values

RECURSIVE AddAnnotationFrom(_, _, _, _, _, _)
\* the loop of add_annotation over the items of applies_values, from item i on
AddAnnotationFrom(self, label, name, annotation_info, applies_values, i) ==
    IF i > Len(applies_values) THEN Ok(self)
    ELSE With("annotations/" \o label \o "/" \o name \o "/for-" \o applies_values[i][1],
              LAMBDA prefix :
         With(IF annotation_info.type.none THEN "bool" ELSE annotation_info.type.val,
              LAMBDA annotation_type :
         Then(add_filetype_with_csr(self, prefix \o "/values.bin", annotation_type,
                                    Some(AnnotationData(applies_values[i][2], annotation_type)),
                                    TRUE, prefix \o "/to-values.bin"), LAMBDA added :
             AddAnnotationFrom(added, label, name, annotation_info, applies_values, i + 1))))

add_annotation(self, label, name, annotation_info, applies_values) ==
    AddAnnotationFrom(self, label, name, annotation_info, applies_values, 1)

RECURSIVE AddAnnotationsFrom(_, _, _, _, _)
\* the loop of add_annotations over the items of annotation_info, from item i on
AddAnnotationsFrom(self, label, annotation_info, annotation_values, i) ==
    IF i > Len(annotation_info) THEN Ok(self)
    ELSE IF ~ItemsHas(annotation_values, annotation_info[i][1]) THEN Raise("AssertionError")
    ELSE Then(add_annotation(self, label, annotation_info[i][1], annotation_info[i][2],
                             ItemsGet(annotation_values, annotation_info[i][1])), LAMBDA added :
             AddAnnotationsFrom(added, label, annotation_info, annotation_values, i + 1))

add_annotations(self, label, annotation_info, annotation_values) ==
    IF annotation_info.none THEN Ok(self)
    ELSE IF annotation_values.none THEN Raise("AssertionError")
    ELSE AddAnnotationsFrom(self, label, annotation_info.val, annotation_values.val, 1)

add_observations(self, apply_to, item_to_observation) ==
    IF apply_to.none THEN Ok(self)
    ELSE IF item_to_observation.none THEN Raise("ValueError")
    ELSE add_common(self, ObservationFile(apply_to.val), item_to_observation, TRUE)

\* vector_to_bytes is given a StructType, which is no CompositeType and no
\* type name: it hands each valuation, a dict, to value_to_bytes, whose
\* assertion on primitive values fails; of an empty list it returns no chunk
\* ranges, and the assertion of add_variable_valuations fails
add_variable_valuations(self, valuation_type, variable_valuations, file, file_csr) ==
    IF Len(variable_valuations) > 0 THEN Raise("AssertionError")
    ELSE Then(vector_to_bytes(variable_valuations, TypeName("struct")), LAMBDA out :
             IF out[2].none THEN Raise("AssertionError")
             ELSE Then(add_common(self, file, Some(out[1]), FALSE), LAMBDA added :
                      Raise("TypeError")))

\* write_umb up to the files of the states
WriteStates(self, umb) ==
    Then(add_index(self, INDEX_JSON, umb.index), LAMBDA w1 :
    Then(add_common(w1, STATE_IS_INITIAL, umb.state_is_initial, TRUE), LAMBDA w2 :
    Then(add_common(w2, STATE_TO_CHOICE, umb.state_to_choice, FALSE), LAMBDA w3 :
    Then(add_common(w3, STATE_TO_PLAYER, umb.state_to_player, FALSE), LAMBDA w4 :
    Then(add_common(w4, STATE_IS_MARKOVIAN, umb.state_is_markovian, FALSE), LAMBDA w5 :
        IF umb.index.transition_system.exit_rate_type.none THEN Ok(w5)
        ELSE add_common_csr(w5, STATE_TO_EXIT_RATE, umb.state_to_exit_rate,
                            STATE_TO_EXIT_RATE_CSR, FALSE,
                            umb.index.transition_system.exit_rate_type))))))

\* write_umb from there up to the files of the actions
WriteBranches(self, umb) ==
    Then(add_common(self, CHOICE_TO_BRANCH, umb.choice_to_branch, FALSE), LAMBDA w1 :
    Then(add_common(w1, BRANCH_TO_TARGET, umb.branch_to_target, FALSE), LAMBDA w2 :
    Then(IF umb.index.transition_system.branch_probability_type.none THEN Ok(w2)
         ELSE add_common_csr(w2, BRANCH_TO_PROBABILITY, umb.branch_to_probability,
                             BRANCH_TO_PROBABILITY_CSR, FALSE,
                             umb.index.transition_system.branch_probability_type), LAMBDA w3 :
    Then(add_common(w3, CHOICE_TO_ACTION, umb.choice_to_action, FALSE), LAMBDA w4 :
    Then(add_common_csr(w4, ACTION_TO_STRING, umb.action_to_string, ACTION_TO_STRING_CSR,
                        FALSE, None), LAMBDA w5 :
    Then(add_common(w5, BRANCH_TO_BRANCH_ACTION, umb.branch_to_branch_action, FALSE),
         LAMBDA w6 :
        add_common_csr(w6, BRANCH_ACTION_TO_STRING, umb.branch_action_to_string,
                       BRANCH_ACTION_TO_STRING_CSR, FALSE, None)))))))

\* write_umb from there to its end
WriteAnnotations(self, umb) ==
    Then(IF umb.index.annotations.none THEN Ok(self)
         ELSE Then(add_annotations(self, "rewards", umb.index.annotations.val.rewards,
                                   umb.rewards), LAMBDA w1 :
                  add_annotations(w1, "aps", umb.index.annotations.val.aps, umb.aps)),
         LAMBDA w2 :
    Then(IF umb.index.state_valuations.none THEN Ok(w2)
         ELSE IF umb.state_to_valuation.none THEN Raise("AssertionError")
         ELSE add_variable_valuations(w2, umb.index.state_valuations.val,
                                      umb.state_to_valuation.val, STATE_TO_VALUATION,
                                      STATE_TO_VALUATION_CSR), LAMBDA w3 :
        add_observations(w3, umb.index.transition_system.observations_apply_to,
                         umb.item_to_observation)))

\* UmbWriter().write_umb(umb, umbpath): the files of the archive it writes
write_umb(umb) ==
    Then(WriteStates(TarWriter, umb), LAMBDA w1 :
    Then(WriteBranches(w1, umb), LAMBDA w2 : WriteAnnotations(w2, umb)))

\* ------------------------------------------------- TarReader and UmbReader
\* A reader is the files of the archive and, per file, whether it was read;
\* with them the model keeps the history of the names that read_file was
\* called with, which is no attribute of the class.
\* A read returns the reader after it and the value, None or Some(value).

UmbReader(filename_data) ==
    [filename_data |-> filename_data,
     filename_read |-> [filename \in DOMAIN filename_data |-> FALSE],
     requested |-> {}]

\* list_unread_files: the files that a warning is logged for
list_unread_files(self) ==
    {filename \in DOMAIN self.filename_read : ~self.filename_read[filename]}

Read(self, value) == [self |-> self, value |-> value]

\* a faulty variant of TarReader.read_file: KeyError for an optional file too
TarReader_read_file_always_required(self, filename, required) ==
    IF filename \notin DOMAIN self.filename_data THEN Raise("KeyError")
    ELSE Ok(Some(self.filename_data[filename]))

\* TarReader.read_file
TarReader_read_file(self, filename, required) ==
    IF filename \notin DOMAIN self.filename_data
    THEN (IF ~required THEN Ok(None) ELSE Raise("KeyError"))
    ELSE Ok(Some(self.filename_data[filename]))

\* a faulty variant of UmbReader.read_file that marks no file as read
read_file_without_mark(self, filename, required) ==
    With([self EXCEPT !.requested = self.requested \cup {filename}], LAMBDA marked :
        Then(TarReader_read_file(marked, filename, required), LAMBDA data :
            Ok(Read(marked, data))))

\* UmbReader.read_file
read_file(self, filename, required) ==
    With(IF filename \in DOMAIN self.filename_data
         THEN [self EXCEPT !.filename_read = DictSet(self.filename_read, filename, TRUE),
                           !.requested = self.requested \cup {filename}]
         ELSE [self EXCEPT !.requested = self.requested \cup {filename}], LAMBDA marked :
        Then(TarReader_read_file(marked, filename, required), LAMBDA data :
            Ok(Read(marked, data))))

read_filetype(self, filename, filetype, required) ==
    Then(read_file(self, filename, required), LAMBDA read :
        IF read.value.none THEN Ok(read)
        ELSE IF ~filetype.vector THEN Ok(read)
        ELSE Then(bytes_to_vector(read.value.val, TypeName(filetype.base_type), None),
                  LAMBDA vector :
                 Ok(Read(read.self, Some(ModelValues(vector, filetype.base_type))))))

read_filetype_with_csr(self, filename, value_type, required, filename_csr, required_csr) ==
    Then(read_file(self, filename, required), LAMBDA read :
        IF read.value.none THEN Ok(read)
        ELSE Then(read_filetype(read.self, filename_csr, VECTOR_TYPE_CSR, required_csr),
                  LAMBDA read_csr :
             Then(IF read_csr.value.none THEN Ok(None)
                  ELSE Then(csr_to_ranges(read_csr.value.val), LAMBDA ranges : Ok(Some(ranges))),
                  LAMBDA chunk_ranges :
             Then(bytes_to_vector(read.value.val, TypeName(value_type), chunk_ranges),
                  LAMBDA vector :
                 Ok(Read(read_csr.self, Some(ModelValues(vector, value_type))))))))

read_common(self, file, required) == read_filetype(self, file[1], file[2], required)

\* vector[:num_entries]
truncate_bitvector(vector, num_entries) == SubSeq(vector, 1, Min(num_entries, Len(vector)))

read_common_bitvector(self, file, num_entries, required) ==
    Then(read_common(self, file, required), LAMBDA read :
        IF read.value.none THEN Ok(read)
        ELSE Ok(Read(read.self, Some(truncate_bitvector(read.value.val, num_entries)))))

\* value_type = None stands for the default of the parameter
read_common_csr(self, file, required, file_csr, required_csr, value_type) ==
    IF value_type.none /\ ~file[2].vector THEN Raise("AssertionError")
    ELSE read_filetype_with_csr(self, file[1],
                                IF value_type.none THEN file[2].base_type ELSE value_type.val,
                                required, file_csr[1], required_csr)

read_json(self, file) ==
    Then(read_common(self, file, TRUE), LAMBDA read :
    Then(from_json(read.value.val), LAMBDA idx :
    Then(JsonSchemaResult_validate(idx), LAMBDA valid : Ok(Read(read.self, idx)))))

\* the number of the items that applies names
NumEntries(index, applies) ==
    CASE applies = "states" -> index.transition_system.num_states
      [] applies = "choices" -> index.transition_system.num_choices
      [] applies = "branches" -> index.transition_system.num_branches

\* the values of an annotation as the ATS keeps them
AnnotationValues(vector, annotation_type) ==
    IF annotation_type \in {"bool", "string"}
    THEN [i \in 1..Len(vector) |-> Value(annotation_type, vector[i])]
    ELSE vector

RECURSIVE ReadAnnotationFrom(_, _, _, _, _, _, _, _)
\* the loop of read_annotation over applies_to, from item i on
ReadAnnotationFrom(self, label, name, annotation, index, applies_to, applies_values, i) ==
    IF i > Len(applies_to) THEN Ok(Read(self, applies_values))
    ELSE With("annotations/" \o label \o "/" \o name \o "/for-" \o applies_to[i], LAMBDA path :
         With(IF annotation.type.none THEN "bool" ELSE annotation.type.val,
              LAMBDA annotation_type :
         Then(read_filetype_with_csr(self, path \o "/values.bin", annotation_type, TRUE,
                                     path \o "/to-values.bin", FALSE), LAMBDA read :
             ReadAnnotationFrom(
                 read.self, label, name, annotation, index, applies_to,
                 ItemsSet(applies_values, applies_to[i],
                          AnnotationValues(
                              IF annotation_type = "bool"
                              THEN truncate_bitvector(read.value.val,
                                                      NumEntries(index, applies_to[i]))
                              ELSE read.value.val, annotation_type)),
                 i + 1))))

read_annotation(self, label, name, annotation, index) ==
    ReadAnnotationFrom(self, label, name, annotation, index,
                       IF annotation.applies_to.none THEN <<"states">>
                       ELSE annotation.applies_to.val, <<>>, 1)

RECURSIVE ReadAnnotationsFrom(_, _, _, _, _, _)
\* the loop of read_annotations over the items of annotation_info, from item i on
ReadAnnotationsFrom(self, label, annotation_info, index, name_applies_values, i) ==
    IF i > Len(annotation_info) THEN Ok(Read(self, Some(name_applies_values)))
    ELSE Then(read_annotation(self, label, annotation_info[i][1], annotation_info[i][2], index),
              LAMBDA read :
             ReadAnnotationsFrom(read.self, label, annotation_info, index,
                                 ItemsSet(name_applies_values, annotation_info[i][1], read.value),
                                 i + 1))

read_annotations(self, label, annotation_info, index) ==
    IF annotation_info.none THEN Ok(Read(self, None))
    ELSE ReadAnnotationsFrom(self, label, annotation_info.val, index, <<>>, 1)

read_observations(self, num_observations, observations_apply_to) ==
    IF num_observations = 0 THEN Ok(Read(self, None))
    ELSE IF observations_apply_to.none THEN Raise("ValueError")
    ELSE read_common(self, ObservationFile(observations_apply_to.val), TRUE)

\* bytes_to_vector is given a StructType, which is no CompositeType and no
\* type name: of no bytes it returns the empty list, and otherwise it hands
\* each chunk to bytes_to_value, whose check of the type name fails
read_variable_valuations(self, variable_valuations, num_entries, file, file_csr) ==
    Then(read_common(self, file_csr, FALSE), LAMBDA read_csr :
    With(IF read_csr.value.none THEN [i \in 1..(num_entries + 1) |-> i - 1]
         ELSE read_csr.value.val, LAMBDA chunks :
    With([i \in 1..Len(chunks) |-> chunks[i] * variable_valuations.alignment],
         LAMBDA chunks_csr :
    Then(read_common(read_csr.self, file, TRUE), LAMBDA read :
    Then(csr_to_ranges(chunks_csr), LAMBDA ranges :
        IF Len(read.value.val) = 0 THEN Ok(Read(read.self, Some(<<>>)))
        ELSE IF Len(ranges) = 0 THEN Ok(Read(read.self, Some(<<>>)))
        ELSE Raise("ValueError"))))))

\* read_umb up to the files of the states: the reader and the umb after them
ReadStates(self, umb) ==
    Then(read_json(self, INDEX_JSON), LAMBDA r1 :
    Then(read_common_bitvector(r1.self, STATE_IS_INITIAL,
                               r1.value.transition_system.num_states, TRUE), LAMBDA r2 :
    Then(read_common(r2.self, STATE_TO_CHOICE, FALSE), LAMBDA r3 :
    Then(read_common(r3.self, STATE_TO_PLAYER, FALSE), LAMBDA r4 :
    Then(read_common_bitvector(r4.self, STATE_IS_MARKOVIAN,
                               r1.value.transition_system.num_states, FALSE), LAMBDA r5 :
    Then(IF r1.value.transition_system.exit_rate_type.none
         THEN Ok(Read(r5.self, umb.state_to_exit_rate))
         ELSE read_common_csr(r5.self, STATE_TO_EXIT_RATE, FALSE, STATE_TO_EXIT_RATE_CSR,
                              FALSE, r1.value.transition_system.exit_rate_type), LAMBDA r6 :
        Ok(Read(r6.self,
                [umb EXCEPT !.index = r1.value, !.state_is_initial = r2.value,
                            !.state_to_choice = r3.value, !.state_to_player = r4.value,
                            !.state_is_markovian = r5.value,
                            !.state_to_exit_rate = r6.value]))))))))

\* read_umb from there up to the files of the actions
ReadBranches(self, umb) ==
    Then(read_common(self, CHOICE_TO_BRANCH, FALSE), LAMBDA r1 :
    Then(read_common(r1.self, BRANCH_TO_TARGET, FALSE), LAMBDA r2 :
    Then(IF umb.index.transition_system.branch_probability_type.none
         THEN Ok(Read(r2.self, umb.branch_to_probability))
         ELSE read_common_csr(r2.self, BRANCH_TO_PROBABILITY, FALSE, BRANCH_TO_PROBABILITY_CSR,
                              FALSE, umb.index.transition_system.branch_probability_type),
         LAMBDA r3 :
    Then(read_common(r3.self, CHOICE_TO_ACTION, FALSE), LAMBDA r4 :
    Then(read_common_csr(r4.self, ACTION_TO_STRING, FALSE, ACTION_TO_STRING_CSR, TRUE, None),
         LAMBDA r5 :
    Then(read_common(r5.self, BRANCH_TO_BRANCH_ACTION, FALSE), LAMBDA r6 :
    Then(read_common_csr(r6.self, BRANCH_ACTION_TO_STRING, FALSE,
                         BRANCH_ACTION_TO_STRING_CSR, TRUE, None), LAMBDA r7 :
        Ok(Read(r7.self,
                [umb EXCEPT !.choice_to_branch = r1.value, !.branch_to_target = r2.value,
                            !.branch_to_probability = r3.value,
                            !.choice_to_action = r4.value, !.action_to_string = r5.value,
                            !.branch_to_branch_action = r6.value,
                            !.branch_action_to_string = r7.value])))))))))

\* read_umb from there to its end
ReadAnnotations(self, umb) ==
    Then(IF umb.index.annotations.none THEN Ok(Read(self, umb.rewards))
         ELSE read_annotations(self, "rewards", umb.index.annotations.val.rewards, umb.index),
         LAMBDA r1 :
    Then(IF umb.index.annotations.none THEN Ok(Read(r1.self, umb.aps))
         ELSE read_annotations(r1.self, "aps", umb.index.annotations.val.aps, umb.index),
         LAMBDA r2 :
    Then(IF umb.index.state_valuations.none THEN Ok(Read(r2.self, umb.state_to_valuation))
         ELSE read_variable_valuations(r2.self, umb.index.state_valuations.val,
                                       umb.index.transition_system.num_states,
                                       STATE_TO_VALUATION, STATE_TO_VALUATION_CSR), LAMBDA r3 :
    Then(read_observations(r3.self, umb.index.transition_system.num_observations,
                           umb.index.transition_system.observations_apply_to), LAMBDA r4 :
        Ok(Read(r4.self,
                [umb EXCEPT !.rewards = r1.value, !.aps = r2.value,
                            !.state_to_valuation = r3.value,
                            !.item_to_observation = r4.value]))))))

\* UmbReader(umbpath).read_umb() on the archive of the given files; the
\* warnings of list_unread_files change nothing of what it returns
read_umb(filename_data) ==
    Then(ReadStates(UmbReader(filename_data), ExplicitUmb), LAMBDA r1 :
    Then(ReadBranches(r1.self, r1.value), LAMBDA r2 :
    Then(ReadAnnotations(r2.self, r2.value), LAMBDA r3 : Ok(r3.value))))

\* ================================================= umbi.io.umb_ats_converter
\* The module umbi.version that the converter names is the four attributes
\* of the package umbi, with the values they take without a pyproject.toml.

toolname == "unknown"

version == "unknown"

format_version == 0

format_revision == 1

\* int(time.time()) is the given number of seconds
umbi_file_data(now) ==
    [tool |-> Some(toolname), tool_version |-> Some(version), creation_date |-> Some(now),
     parameters |-> None]

RECURSIVE AppliesToValuesFrom(_, _, _)
\* the loop of ats_annotation_to_umb_annotation, from mapping i on: the
\* dict applies-to -> values
AppliesToValuesFrom(mappings, target_type, i) ==
    IF i > Len(mappings) THEN Ok(<<>>)
    ELSE Then(IF target_type \notin {"string", "bool"}
              THEN promote_to_vector_of_numeric(mappings[i][2], target_type)
              ELSE Ok(mappings[i][2]), LAMBDA values :
         Then(AppliesToValuesFrom(mappings, target_type, i + 1), LAMBDA rest :
             Ok(<<<<mappings[i][1], values>>>> \o rest)))

\* the pair of the annotation of the index and the dict applies-to -> values
ats_annotation_to_umb_annotation(annotation) ==
    Then(Annotation_type(annotation), LAMBDA target_type :
    Then(AppliesToValuesFrom(Mappings(annotation), target_type, 1), LAMBDA applies_to_values :
        Ok(<<Annotation(annotation.alias, annotation.description,
                        Some([i \in 1..Len(applies_to_values) |-> applies_to_values[i][1]]),
                        Some(target_type), None, None),
             applies_to_values>>)))

RECURSIVE UmbAnnotationsFrom(_, _)
\* a loop of explicit_ats_to_explicit_umb over an annotation dict, from item
\* i on: the dict name -> annotation and the dict name -> values
UmbAnnotationsFrom(annotations, i) ==
    IF i > Len(annotations) THEN Ok([annotations |-> <<>>, values |-> <<>>])
    ELSE Then(ats_annotation_to_umb_annotation(annotations[i][2]), LAMBDA pair :
         Then(UmbAnnotationsFrom(annotations, i + 1), LAMBDA rest :
             Ok([annotations |-> <<<<annotations[i][1], pair[1]>>>> \o rest.annotations,
                 values |-> <<<<annotations[i][1], pair[2]>>>> \o rest.values])))

\* ModelData(...) of the fields of a ModelInfo, or None
ModelDataOf(model_info) ==
    IF model_info.none THEN None
    ELSE Some([name |-> model_info.val.name, version |-> model_info.val.version,
               authors |-> model_info.val.authors, description |-> model_info.val.description,
               comment |-> model_info.val.comment, doi |-> model_info.val.doi,
               url |-> model_info.val.url])

\* the UmbIndex(...) that explicit_ats_to_explicit_umb constructs
AtsIndex(ats, rewards, aps, now) ==
    Then(GetAttr(ats, "num_observations"), LAMBDA num_observations :
        Ok(UmbIndex(format_version, format_revision, ModelDataOf(ats.model_info),
                    Some(umbi_file_data(now)),
                    [TransitionSystem EXCEPT
                        !.time = ats.time, !.num_players = ats.num_players,
                        !.num_states = ats.num_states,
                        !.num_initial_states = ats.num_initial_states,
                        !.num_choices = ats.num_choices, !.num_actions = ats.num_actions,
                        !.num_branches = ats.num_branches,
                        !.num_observations = num_observations],
                    Some(Annotations(Some(rewards.annotations), Some(aps.annotations))),
                    ats.state_valuations)))

\* the statements "if ats.<vector> is not None: ..." of
\* explicit_ats_to_explicit_umb: the umb after them
PromotedInto(umb, vector, type_of_vector, type_attribute, vector_attribute) ==
    IF vector.none THEN Ok(umb)
    ELSE Then(type_of_vector, LAMBDA target_type :
             IF target_type.none THEN Raise("AssertionError")
             ELSE Then(promote_to_vector_of_numeric(vector.val, target_type.val),
                       LAMBDA promoted :
                      Ok(SetAttr([umb EXCEPT !.index = SetAttr(umb.index, type_attribute,
                                                               target_type.val)],
                                 vector_attribute, Some(promoted)))))

\* explicit_ats_to_explicit_umb from the statement "## values" on
AtsValues(ats, umb, rewards, aps) ==
    Then(PromotedInto([umb EXCEPT !.state_is_initial = ats.state_is_initial,
                                  !.state_to_choice = ats.state_to_choice,
                                  !.state_to_player = ats.state_to_player,
                                  !.state_is_markovian = ats.state_is_markovian],
                      ats.state_exit_rate, exit_rate_type(ats),
                      "exit_rate_type", "state_exit_rate"), LAMBDA umb1 :
    Then(PromotedInto(SetAttr([umb1 EXCEPT !.choice_to_branch = ats.choice_to_branch,
                                           !.choice_to_action = ats.choice_to_action,
                                           !.branch_to_target = ats.branch_to_target],
                              "action_strings", ats.action_strings),
                      ats.branch_probabilities, branch_probability_type(ats),
                      "branch_probability_type", "branch_probabilities"), LAMBDA umb2 :
    Then(GetAttr(ats, "state_valuations_values"), LAMBDA state_valuations_values :
    With(SetAttr([umb2 EXCEPT !.rewards = Some(rewards.values), !.aps = Some(aps.values)],
                 "state_valuations", state_valuations_values), LAMBDA umb3 :
    Then(ExplicitUmb_validate(umb3), LAMBDA valid : Ok(umb3))))))

explicit_ats_to_explicit_umb(ats, now) ==
    Then(validate(ats), LAMBDA valid :
    Then(UmbAnnotationsFrom(ats.reward_annotations, 1), LAMBDA rewards :
    Then(UmbAnnotationsFrom(ats.ap_annotations, 1), LAMBDA aps :
    Then(AtsIndex(ats, rewards, aps, now), LAMBDA index :
        AtsValues(ats, [ExplicitUmb EXCEPT !.index = index], rewards, aps)))))

\* umb_annotation_to_ats_annotation: the annotation of the ATS with the
\* values of the items that the annotation of the index applies to
umb_annotation_to_ats_annotation(umb_annotation, applies_to_values, ats_annotation) ==
    IF umb_annotation.applies_to.none THEN Ok(ats_annotation)
    ELSE IF \E i \in 1..Len(umb_annotation.applies_to.val) :
                ~ItemsHas(applies_to_values, umb_annotation.applies_to.val[i])
    THEN Raise("KeyError")
    ELSE With({umb_annotation.applies_to.val[i] : i \in 1..Len(umb_annotation.applies_to.val)},
              LAMBDA applies :
             Ok([ats_annotation EXCEPT
                    !.state_to_value = IF "states" \in applies
                                       THEN Some(ItemsGet(applies_to_values, "states")) ELSE @,
                    !.choice_to_value = IF "choices" \in applies
                                        THEN Some(ItemsGet(applies_to_values, "choices")) ELSE @,
                    !.branch_to_value = IF "branches" \in applies
                                        THEN Some(ItemsGet(applies_to_values, "branches"))
                                        ELSE @]))

\* the loop over index.annotations.rewards: RewardAnnotation(**kwargs) hands
\* the keyword type to Annotation.__init__, which has no such parameter
RewardsOfUmb(ats, umb) ==
    IF umb.index.annotations.val.rewards.none THEN Ok(ats)
    ELSE IF umb.rewards.none THEN Raise("AssertionError")
    ELSE IF Len(umb.index.annotations.val.rewards.val) = 0 THEN Ok(ats)
    ELSE IF ~ItemsHas(umb.rewards.val, umb.index.annotations.val.rewards.val[1][1])
    THEN Raise("AssertionError")
    ELSE Raise("TypeError")

RECURSIVE ApsOfUmbFrom(_, _, _, _)
\* the loop over index.annotations.aps, from item i on
ApsOfUmbFrom(ats, annotations, aps, i) ==
    IF i > Len(annotations) THEN Ok(ats)
    ELSE IF ~ItemsHas(aps, annotations[i][1]) THEN Raise("AssertionError")
    ELSE Then(umb_annotation_to_ats_annotation(
                  annotations[i][2], ItemsGet(aps, annotations[i][1]),
                  [AtomicPropositionAnnotation(annotations[i][1], None, None, None)
                      EXCEPT !.alias = annotations[i][2].alias,
                             !.description = annotations[i][2].description]),
              LAMBDA ats_annotation :
             IF ItemsHas(ats.ap_annotations, annotations[i][1]) THEN Raise("ValueError")
             ELSE ApsOfUmbFrom([ats EXCEPT !.ap_annotations =
                                   ItemsSet(@, annotations[i][1], ats_annotation)],
                               annotations, aps, i + 1))

ApsOfUmb(ats, umb) ==
    IF umb.index.annotations.val.aps.none THEN Ok(ats)
    ELSE IF umb.aps.none THEN Raise("AssertionError")
    ELSE ApsOfUmbFrom(ats, umb.index.annotations.val.aps.val, umb.aps.val, 1)

\* explicit_umb_to_explicit_ats up to the annotations
UmbIndexIntoAts(umb) ==
    With(umb.index.transition_system, LAMBDA ts :
    With(SetAttr([ExplicitAts EXCEPT
                     !.model_info = ModelDataOf(umb.index.model_data), !.time = ts.time,
                     !.num_players = ts.num_players, !.num_states = ts.num_states,
                     !.num_initial_states = ts.num_initial_states,
                     !.num_choices = ts.num_choices, !.num_actions = ts.num_actions,
                     !.num_branches = ts.num_branches],
                 "num_observations", ts.num_observations), LAMBDA ats :
        IF umb.index.annotations.none THEN Ok(ats)
        ELSE Then(RewardsOfUmb(ats, umb), LAMBDA ats1 : ApsOfUmb(ats1, umb))))

\* explicit_umb_to_explicit_ats from the statement "## values" on
UmbValues(ats, umb) ==
    Then(GetAttr(umb, "state_exit_rate"), LAMBDA state_exit_rate :
    Then(GetAttr(umb, "action_strings"), LAMBDA action_strings :
    Then(GetAttr(umb, "branch_probabilities"), LAMBDA branch_probabilities :
    Then(GetAttr(umb, "state_valuations"), LAMBDA state_valuations :
    With(SetAttr([ats EXCEPT !.state_is_initial = umb.state_is_initial,
                             !.state_to_choice = umb.state_to_choice,
                             !.state_to_player = umb.state_to_player,
                             !.state_is_markovian = umb.state_is_markovian,
                             !.state_exit_rate = state_exit_rate,
                             !.choice_to_branch = umb.choice_to_branch,
                             !.choice_to_action = umb.choice_to_action,
                             !.action_strings = action_strings,
                             !.branch_to_target = umb.branch_to_target,
                             !.branch_probabilities = branch_probabilities,
                             !.state_valuations = umb.index.state_valuations],
                 "state_valuations_values", state_valuations), LAMBDA ats1 :
    Then(validate(ats1), LAMBDA valid : Ok(ats1)))))))

explicit_umb_to_explicit_ats(umb) ==
    Then(ExplicitUmb_validate(umb), LAMBDA valid :
    Then(UmbIndexIntoAts(umb), LAMBDA ats : UmbValues(ats, umb)))

\* read_ats(umbpath) on the archive of the given files
read_ats(filename_data) == Then(read_umb(filename_data), explicit_umb_to_explicit_ats)

\* write_ats(ats, umbpath): the files of the archive it writes
write_ats(ats, now) ==
    Then(explicit_ats_to_explicit_umb(ats, now), LAMBDA umb : write_umb(umb))

\* ------------------------------------------- write_ats, then read_ats
\* A behaviour of SpecAts draws an ExplicitAts and runs write_ats on it
\* (explicit_ats_to_explicit_umb, then write_umb) and read_ats on the archive
\* (read_umb, then explicit_umb_to_explicit_ats), or it draws an ExplicitUmb
\* and runs write_umb on it and read_ats on the archive.  An ExplicitAts is
\* drawn with and without the attributes num_observations and
\* state_valuations_values, which are no fields of the dataclass and which a
\* caller can only have set on the object.

\* most states of a drawn transition system
MaxStates == 2

\* latest time of a write, in seconds
MaxTime == 1

One == Value("int", BigOne)

OneDouble == Value("double", <<63, 240, 0, 0, 0, 0, 0, 0>>)

Half == Value("rational", Fraction(BigOne, BigOfInt(2)).val)

\* the list [0, 1, ..., n]
RowStarts(n) == [i \in 1..(n + 1) |-> i - 1]

\* the fields of n states: the flags of the initial states (n of them, or
\* one more) and their count (right or one too many)
AtsStatesOf(n) ==
    {[ExplicitAts EXCEPT !.num_states = n, !.state_is_initial = Some(flags),
                         !.num_initial_states =
                             Cardinality({i \in 1..Len(flags) : flags[i]}) + more]
        : more \in {0, 1}, flags \in [1..n -> BOOLEAN] \cup {[i \in 1..(n + 1) |-> TRUE]}}

AtsStates(max_states) == UNION {AtsStatesOf(n) : n \in 0..max_states}

\* with the choices, branches and actions of a chain (one choice per state,
\* one branch per choice, every branch to state 0), or without
AtsBranches(ats) ==
    {ats,
     [ats EXCEPT !.num_choices = ats.num_states, !.num_branches = ats.num_states,
                 !.state_to_choice = Some(RowStarts(ats.num_states)),
                 !.choice_to_branch = Some(RowStarts(ats.num_states)),
                 !.branch_to_target = Some(Zeros(ats.num_states)),
                 !.num_actions = 1, !.choice_to_action = Some(Zeros(ats.num_states)),
                 !.action_strings = Some(<<<<97>>>>)]}

\* with branch probabilities and exit rates of one type or of several
AtsNumerics(ats) ==
    {[ats EXCEPT !.branch_probabilities = probabilities, !.state_exit_rate = rates]
        : probabilities \in {None, Some(<<>>), Some(<<One>>), Some(<<OneDouble>>),
                             Some(<<One, Half>>), Some(<<One, OneDouble>>)},
          rates \in {None, Some(<<OneDouble>>)}}

\* with an atomic proposition of the states, a reward of the states, without
\* state valuations, or as it is
AtsAnnotations(ats) ==
    {ats,
     [ats EXCEPT !.ap_annotations =
         <<<<"a", AtomicPropositionAnnotation(
                      "a", Some([i \in 1..ats.num_states |-> Value("bool", TRUE)]),
                      None, None)>>>>],
     [ats EXCEPT !.reward_annotations =
         <<<<"r", RewardAnnotation("r", Some([i \in 1..ats.num_states |-> One]),
                                   None, None)>>>>],
     [ats EXCEPT !.state_valuations = None]}

\* with the attributes that are no fields of the dataclass, or without
AtsAttributes(ats) ==
    {ats, SetAttr(ats, "num_observations", 0),
     SetAttr(ats, "state_valuations_values", None),
     SetAttr(SetAttr(ats, "num_observations", 0), "state_valuations_values", None)}

AtsInputs(max_states) ==
    UNION {AtsAttributes(d) :
        d \in UNION {AtsAnnotations(c) :
            c \in UNION {AtsNumerics(b) :
                b \in UNION {AtsBranches(a) : a \in AtsStates(max_states)}}}}

\* the index of an ExplicitUmb of n states
UmbIndexOf(n, probability_type, rate_type, annotations, state_valuations) ==
    UmbIndex(format_version, format_revision, None, Some(umbi_file_data(0)),
             [TransitionSystem EXCEPT !.num_states = n, !.num_initial_states = 1,
                                      !.num_choices = n, !.num_branches = n,
                                      !.num_actions = 1,
                                      !.branch_probability_type = probability_type,
                                      !.exit_rate_type = rate_type],
             annotations, state_valuations)

\* the types and the vectors of the branch probabilities, or of the exit
\* rates, of n items
UmbNumerics(n) ==
    {<<None, None>>, <<Some("double"), None>>,
     <<Some("double"), Some([i \in 1..n |-> OneDouble])>>,
     <<Some("rational"), Some([i \in 1..n |-> Half])>>}

\* the annotations of the index, the rewards and the atomic propositions
UmbAnnotations(n) ==
    {<<None, None, None>>,
     <<Some(Annotations(None, None)), None, None>>,
     <<Some(Annotations(Some(<<>>), Some(<<>>))), None, Some(<<>>)>>,
     <<Some(Annotations(
           None,
           Some(<<<<"a", Annotation(None, None, Some(<<"states">>), None, None, None)>>>>))),
       None,
       Some(<<<<"a", <<<<"states", [i \in 1..n |-> Value("bool", TRUE)]>>>>>>>>)>>,
     <<Some(Annotations(
           Some(<<<<"r", Annotation(None, None, Some(<<"states">>), Some("double"),
                                    None, None)>>>>),
           None)),
       Some(<<<<"r", <<<<"states", [i \in 1..n |-> OneDouble]>>>>>>>>),
       None>>}

\* the type of the state valuations and the valuations
UmbValuations ==
    {<<None, None>>, <<Some(StructType(1, <<>>)), None>>,
     <<Some(StructType(1, <<>>)), Some(<<>>)>>}

\* the drawn ExplicitUmb of n states
UmbInputsOf(n) ==
    {[ExplicitUmb EXCEPT
         !.index = UmbIndexOf(n, probabilities[1], rates[1], annotations[1], valuations[1]),
         !.state_is_initial = state_is_initial,
         !.state_to_choice = state_to_choice,
         !.choice_to_branch = state_to_choice,
         !.branch_to_target = Some(Zeros(n)),
         !.branch_to_probability = probabilities[2],
         !.state_to_exit_rate = rates[2],
         !.choice_to_action = Some(Zeros(n)),
         !.action_to_string = action_to_string,
         !.rewards = annotations[2], !.aps = annotations[3],
         !.state_to_valuation = valuations[2]]
        : state_is_initial \in {None, Some([i \in 1..n |-> i = 1])},
          state_to_choice \in {None, Some(RowStarts(n))},
          probabilities \in UmbNumerics(n),
          rates \in {<<None, None>>, <<Some("double"), Some([i \in 1..n |-> OneDouble])>>},
          action_to_string \in {None, Some(<<<<97>>>>), Some(<<<<>>>>)},
          annotations \in UmbAnnotations(n),
          valuations \in UmbValuations}

UmbInputs(max_states) == UNION {UmbInputsOf(n) : n \in 0..max_states}

AtsInit ==
    /\ pc = "start"
    /\ \/ \E ats \in AtsInputs(MaxStates) :
              arg = [op |-> "ats", type |-> "ExplicitAts", value |-> ats, rest |-> <<>>]
       \/ \E umb \in UmbInputs(MaxStates) :
              arg = [op |-> "umb", type |-> "ExplicitUmb", value |-> umb, rest |-> <<>>]
    /\ enc = None
    /\ dec = None

\* write_ats: explicit_ats_to_explicit_umb(ats)
ExplicitAtsToExplicitUmb ==
    /\ pc = "start" /\ arg.op = "ats"
    /\ \E now \in 0..MaxTime : enc' = explicit_ats_to_explicit_umb(arg.value, now)
    /\ pc' = "converted"
    /\ UNCHANGED <<arg, dec>>

\* write_umb(umb, umbpath), on the umb that was drawn or that write_ats
\* converted the ATS to
WriteUmb ==
    /\ arg.op \in {"ats", "umb"}
    /\ pc = (IF arg.op = "ats" THEN "converted" ELSE "start")
    /\ arg.op = "ats" => enc.err = ""
    /\ enc' = write_umb(IF arg.op = "ats" THEN enc.val ELSE arg.value)
    /\ pc' = "written"
    /\ UNCHANGED <<arg, dec>>

\* read_ats: read_umb(umbpath) on the archive that was written
ReadUmb ==
    /\ pc = "written" /\ arg.op \in {"ats", "umb"} /\ enc.err = ""
    /\ dec' = read_umb(enc.val)
    /\ pc' = "read"
    /\ UNCHANGED <<arg, enc>>

\* read_ats: explicit_umb_to_explicit_ats(umb)
ExplicitUmbToExplicitAts ==
    /\ pc = "read" /\ arg.op \in {"ats", "umb"} /\ dec.err = ""
    /\ dec' = explicit_umb_to_explicit_ats(dec.val)
    /\ pc' = "done"
    /\ UNCHANGED <<arg, enc>>

AtsNext == ExplicitAtsToExplicitUmb \/ WriteUmb \/ ReadUmb \/ ExplicitUmbToExplicitAts

SpecAts == AtsInit /\ [][AtsNext]_vars

\* C1: for any ATS A accepted by validate(), writing A with write_ats and
\* reading the written archive with read_ats yields an ATS equal to A (same
\* counts, CSR arrays, branch targets, branch probabilities, exit rates,
\* action strings and annotations), up to the promotion of numeric vectors
\* to their promotion type and the order of name-keyed annotation maps:
\* no step of write_ats and of read_ats raises, and the ATS that read_ats
\* returns is equal to A, numbers compared by value and annotation maps
\* whatever their order.
C1_AtsRoundTrip ==
    (arg.op = "ats" /\ validate(arg.value).err = "") =>
        /\ pc \in {"converted", "written"} => enc.err = ""
        /\ pc = "read" => dec.err = ""
        /\ pc = "done" => dec.err = "" /\ equal(arg.value, dec.val)

\* write_ats of an ATS that validate() accepts, built by the constructor
\* alone, raised AttributeError in explicit_ats_to_explicit_umb
C1_ValidAtsNotConverted ==
    /\ arg.op = "ats" /\ pc = "converted"
    /\ validate(arg.value).err = ""
    /\ DOMAIN arg.value = {ExplicitAtsFields[i] : i \in 1..Len(ExplicitAtsFields)}
    /\ arg.value.num_states = 1 /\ arg.value.state_is_initial = Some(<<TRUE>>)
    /\ enc.err = "AttributeError"

\* the transition-system section of the index.json of the files
ManifestTransitionSystem(files) == ItemsGet(files[INDEX_JSON[1]].value, "transition-system")

\* C17: when an ATS with branch probabilities is written with write_ats,
\* the emitted manifest's transition-system section declares
\* branch-probability-type equal to the promotion type of the probabilities,
\* and the probabilities payload is written to the archive, with a CSR file
\* whenever not all encoded rationals have the standard 16-byte width.
C17_ProbabilityTypeEmitted ==
    (arg.op = "ats" /\ validate(arg.value).err = ""
        /\ ~arg.value.branch_probabilities.none
        /\ Len(arg.value.branch_probabilities.val) > 0
        /\ branch_probability_type(arg.value).err = ""
        /\ pc \in {"converted", "written"}) =>
        /\ enc.err = ""
        /\ pc = "written" =>
               /\ ItemsHas(ManifestTransitionSystem(enc.val).value, "branch-probability-type")
               /\ ItemsGet(ManifestTransitionSystem(enc.val).value, "branch-probability-type")
                      = JString(branch_probability_type(arg.value).val.val)
               /\ BRANCH_TO_PROBABILITY[1] \in DOMAIN enc.val
               /\ (branch_probability_type(arg.value).val.val = "rational"
                      /\ Len(enc.val[BRANCH_TO_PROBABILITY[1]])
                             # 16 * Len(arg.value.branch_probabilities.val))
                     => BRANCH_TO_PROBABILITY_CSR[1] \in DOMAIN enc.val

\* write_ats of an accepted ATS with the branch probabilities [1, 1/2],
\* whose promotion type is rational, raised before any file was written
C17_ProbabilitiesNotWritten ==
    /\ arg.op = "ats" /\ pc = "converted"
    /\ validate(arg.value).err = ""
    /\ arg.value.branch_probabilities = Some(<<One, Half>>)
    /\ branch_probability_type(arg.value) = Ok(Some("rational"))
    /\ enc.err # ""


\* ------------------------------------------------------ ExplicitAts.validate
\* A behaviour of SpecValidate draws an ExplicitAts whose counts and whose
\* lists state_to_choice, choice_to_branch and branch_to_target are chosen
\* independently of each other, as a caller can set the fields of the
\* dataclass, and calls validate() on it.

\* largest count of choices or branches, and largest entry of a drawn list
MaxCount == 2

\* the lists of min_len to max_len entries in 0..MaxCount
ListsOf(min_len, max_len) == UNION {[1..n -> 0..MaxCount] : n \in min_len..max_len}

\* an ExplicitAts of n states, the first of them initial
AtsOfCounts(n, num_choices, num_branches) ==
    [ExplicitAts EXCEPT !.num_states = n, !.num_choices = num_choices,
                        !.num_branches = num_branches,
                        !.state_is_initial = Some([i \in 1..n |-> i = 1]),
                        !.num_initial_states = IF n > 0 THEN 1 ELSE 0]

ValidateInit ==
    /\ pc = "start"
    /\ enc = None
    /\ dec = None
    /\ \E n \in 0..MaxStates, num_choices \in 0..MaxCount, num_branches \in 0..MaxCount :
           \/ \E state_to_choice \in {None} \cup {Some(l) : l \in ListsOf(1, MaxStates + 1)},
                 choice_to_branch \in {None} \cup {Some(l) : l \in ListsOf(1, MaxCount + 1)} :
                  arg = [op |-> "validate", type |-> "ExplicitAts", rest |-> <<>>,
                         value |-> [AtsOfCounts(n, num_choices, num_branches) EXCEPT
                                       !.state_to_choice = state_to_choice,
                                       !.choice_to_branch = choice_to_branch]]
           \/ \E branch_to_target \in {None} \cup {Some(l) : l \in ListsOf(0, MaxCount)} :
                  arg = [op |-> "validate", type |-> "ExplicitAts", rest |-> <<>>,
                         value |-> [AtsOfCounts(n, num_choices, num_branches) EXCEPT
                                       !.state_to_choice = Some(RowStarts(n)),
                                       !.branch_to_target = branch_to_target]]

\* ats.validate()
Validate ==
    /\ pc = "start" /\ arg.op = "validate"
    /\ dec' = validate(arg.value)
    /\ pc' = "validated"
    /\ UNCHANGED <<arg, enc>>

ValidateNext == Validate

SpecValidate == ValidateInit /\ [][ValidateNext]_vars

\* a CSR list over num_rows rows and num_entries entries: num_rows + 1
\* monotone non-decreasing offsets from 0 to num_entries
IsRowStarts(list, num_rows, num_entries) ==
    /\ Len(list) = num_rows + 1
    /\ \A i \in 1..(Len(list) - 1) : list[i] <= list[i + 1]
    /\ list[1] = 0
    /\ list[Len(list)] = num_entries

\* C12: every ATS that ExplicitAts.validate() accepts has state_to_choice,
\* when present, of length N_s+1, monotone non-decreasing, with first entry
\* 0 and last entry N_c, and choice_to_branch, when present, of length
\* N_c+1, monotone non-decreasing, with first entry 0 and last entry N_b.
C12_AcceptedRowStarts ==
    (arg.op = "validate" /\ pc = "validated" /\ dec.err = "") =>
        /\ ~arg.value.state_to_choice.none =>
               IsRowStarts(arg.value.state_to_choice.val,
                           arg.value.num_states, arg.value.num_choices)
        /\ ~arg.value.choice_to_branch.none =>
               IsRowStarts(arg.value.choice_to_branch.val,
                           arg.value.num_choices, arg.value.num_branches)

\* validate() has accepted an ATS of one state and one choice whose
\* state_to_choice is [2, 1]
C12_DecreasingRowStartsAccepted ==
    /\ arg.op = "validate" /\ pc = "validated" /\ dec.err = ""
    /\ arg.value.num_states = 1 /\ arg.value.num_choices = 1
    /\ arg.value.state_to_choice = Some(<<2, 1>>)
    /\ arg.value.choice_to_branch = None

\* C13: every ATS that ExplicitAts.validate() accepts has every entry of
\* branch_to_target in the range [0, N_s).
C13_AcceptedBranchTargets ==
    (arg.op = "validate" /\ pc = "validated" /\ dec.err = ""
        /\ ~arg.value.branch_to_target.none) =>
        \A i \in 1..Len(arg.value.branch_to_target.val) :
            /\ 0 <= arg.value.branch_to_target.val[i]
            /\ arg.value.branch_to_target.val[i] < arg.value.num_states

\* validate() has accepted an ATS of one state whose only branch goes to
\* state 2
C13_TargetOutOfRangeAccepted ==
    /\ arg.op = "validate" /\ pc = "validated" /\ dec.err = ""
    /\ arg.value.num_states = 1 /\ arg.value.num_branches = 1
    /\ arg.value.branch_to_target = Some(<<2>>)


\* ------------------------------------------------------- UmbReader.read_umb
\* A behaviour of SpecLoad draws the files of an archive, opens a reader on
\* them and either runs read_umb, in the three parts of the model and then
\* list_unread_files, or calls read_file twice with drawn arguments.  The
\* archive has its index or not, bitvector payloads of any length, files
\* that read_umb asks for under some indexes only, and a file it never asks
\* for.

\* most states that an index of a drawn archive declares: more than the
\* 8 bits of a one-byte bitvector
MaxLoadStates == 9

\* an index of n states and n + 1 choices, without annotations or with the
\* atomic proposition "a" of the given items
LoadIndex(n, applies_to) ==
    [UmbIndexOf(n, None, None,
                IF applies_to.none THEN None
                ELSE Some(Annotations(
                         None,
                         Some(<<<<"a", Annotation(None, None, Some(<<applies_to.val>>),
                                                  None, None, None)>>>>))),
                None)
        EXCEPT !.transition_system.num_choices = n + 1]

LoadIndexes ==
    {LoadIndex(n, applies_to) :
        n \in {1, MaxLoadStates}, applies_to \in {None, Some("states"), Some("choices")}}

\* the files with one more file, or as they are
WithFile(files, filename, data) ==
    IF data.none THEN files ELSE add_file(files, filename, data.val)

\* no file, or a bitvector of 0, 8 or 16 bits
BitvectorPayloads == {None, Some(<<>>), Some(<<1>>), Some(<<1, 2>>)}

\* the values of the atomic proposition "a" of an index
ApValuesFile(index) ==
    "annotations/aps/a/for-"
        \o (IF index.annotations.none THEN "states"
            ELSE index.annotations.val.aps.val[1][2].applies_to.val[1])
        \o "/values.bin"

LoadFiles(index, has_index, initial, markovian, values, player, csr, extra) ==
    WithFile(WithFile(WithFile(WithFile(WithFile(WithFile(
        IF has_index THEN add_file(TarWriter, INDEX_JSON[1], to_json(index).val)
        ELSE TarWriter,
        STATE_IS_INITIAL[1], initial),
        STATE_IS_MARKOVIAN[1], markovian),
        ApValuesFile(index), values),
        STATE_TO_PLAYER[1], player),
        BRANCH_TO_PROBABILITY_CSR[1], csr),
        "extra.bin", extra)

\* the names that read_file is called with on its own
ReadNames == {INDEX_JSON[1], STATE_IS_INITIAL[1], STATE_IS_MARKOVIAN[1], "extra.bin"}

\* the archives of some of three files
SmallArchives ==
    {[filename \in names |-> <<0>>] :
        names \in SUBSET {INDEX_JSON[1], STATE_IS_INITIAL[1], "extra.bin"}}

LoadInit ==
    /\ pc = "start"
    /\ enc = None
    /\ dec = None
    /\ \/ \E index \in LoadIndexes, has_index \in BOOLEAN,
             initial \in BitvectorPayloads, markovian \in BitvectorPayloads,
             values \in BitvectorPayloads :
             \E player \in {None, Some(Zeros(4 * index.transition_system.num_states))},
                csr \in {None, Some(Zeros(8))}, extra \in {None, Some(<<0>>)} :
                 arg = [op |-> "load", type |-> "archive", rest |-> <<>>,
                        value |-> LoadFiles(index, has_index, initial, markovian, values,
                                            player, csr, extra)]
       \/ \E files \in SmallArchives :
              arg = [op |-> "read_file", type |-> "archive", rest |-> <<>>, value |-> files]

\* UmbReader(tarpath)
NewUmbReader ==
    /\ pc = "start" /\ arg.op \in {"load", "read_file"}
    /\ dec' = [err |-> "", self |-> UmbReader(arg.value), umb |-> ExplicitUmb,
               value |-> None, call |-> <<>>, warnings |-> {}]
    /\ pc' = "opened"
    /\ UNCHANGED <<arg, enc>>

\* read_umb in progress after a part of it returned the reader and the umb
\* or raised
AfterRead(call, read) ==
    IF read.err # "" THEN [call EXCEPT !.err = read.err]
    ELSE [call EXCEPT !.self = read.val.self, !.umb = read.val.value]

\* read_umb: the index and the files of the states
LoadStates ==
    /\ pc = "opened" /\ arg.op = "load"
    /\ dec' = AfterRead(dec, ReadStates(dec.self, dec.umb))
    /\ pc' = IF dec'.err # "" THEN "failed" ELSE "states"
    /\ UNCHANGED <<arg, enc>>

\* read_umb: the files of the branches and of the actions
LoadBranches ==
    /\ pc = "states"
    /\ dec' = AfterRead(dec, ReadBranches(dec.self, dec.umb))
    /\ pc' = IF dec'.err # "" THEN "failed" ELSE "branches"
    /\ UNCHANGED <<arg, enc>>

\* read_umb: the annotations, the valuations and the observations
LoadAnnotations ==
    /\ pc = "branches"
    /\ dec' = AfterRead(dec, ReadAnnotations(dec.self, dec.umb))
    /\ pc' = IF dec'.err # "" THEN "failed" ELSE "annotations"
    /\ UNCHANGED <<arg, enc>>

\* read_umb: list_unread_files(), then the return of the umb
ListUnreadFiles ==
    /\ pc = "annotations"
    /\ dec' = [dec EXCEPT !.warnings = list_unread_files(dec.self)]
    /\ pc' = "loaded"
    /\ UNCHANGED <<arg, enc>>

\* the reader and what it returned after read_file(filename, required)
AfterReadFile(call, filename, required, read) ==
    IF read.err # "" THEN [call EXCEPT !.err = read.err, !.call = <<filename, required>>]
    ELSE [call EXCEPT !.self = read.val.self, !.value = read.val.value,
                      !.call = <<filename, required>>]

\* reader.read_file(filename, required)
ReadFile ==
    /\ pc \in {"opened", "read_once"} /\ arg.op = "read_file"
    /\ \E filename \in ReadNames, required \in BOOLEAN :
           dec' = AfterReadFile(dec, filename, required,
                                read_file(dec.self, filename, required))
    /\ pc' = IF dec'.err # "" THEN "failed"
             ELSE IF pc = "opened" THEN "read_once" ELSE "read_twice"
    /\ UNCHANGED <<arg, enc>>

LoadNext ==
    \/ NewUmbReader
    \/ LoadStates \/ LoadBranches \/ LoadAnnotations \/ ListUnreadFiles
    \/ ReadFile

SpecLoad == LoadInit /\ [][LoadNext]_vars

\* every list of the dict name -> applies-to -> values has the length of the
\* items it applies to
AnnotationLengthsExact(name_applies_values, index) ==
    \A i \in 1..Len(name_applies_values) :
        \A j \in 1..Len(name_applies_values[i][2]) :
            Len(name_applies_values[i][2][j][2])
                = NumEntries(index, name_applies_values[i][2][j][1])

\* C14: after a load that completes without error, every boolean vector the
\* loader returns (initial states, markovian states, boolean annotation
\* values) has length exactly the entity count it applies to (#states,
\* #choices or #branches), whatever the length of the stored bitvector
\* payload.
C14_BooleanVectorLengths ==
    (arg.op = "load" /\ pc = "loaded") =>
        /\ Len(dec.umb.state_is_initial.val) = dec.umb.index.transition_system.num_states
        /\ ~dec.umb.state_is_markovian.none =>
               Len(dec.umb.state_is_markovian.val)
                   = dec.umb.index.transition_system.num_states
        /\ ~dec.umb.aps.none => AnnotationLengthsExact(dec.umb.aps.val, dec.umb.index)

\* a load has completed on an archive that declares 9 states and stores 8
\* bits of initial states, and has returned 8 flags
C14_ShortBitvectorReturned ==
    /\ arg.op = "load" /\ pc = "loaded" /\ dec.err = ""
    /\ dec.umb.index.transition_system.num_states = 9
    /\ arg.value[STATE_IS_INITIAL[1]] = <<1>>
    /\ Len(dec.umb.state_is_initial.val) = 8

\* the files that read_umb requires of an archive with an index: the index
\* and the initial states, read in its first part, and the values of each
\* declared annotation, read in its last part
RequiredFirst == {INDEX_JSON[1], STATE_IS_INITIAL[1]}

RequiredLast(files) ==
    IF INDEX_JSON[1] \notin DOMAIN files THEN {}
    ELSE IF ~ItemsHas(files[INDEX_JSON[1]].value, "annotations") THEN {}
    ELSE {"annotations/aps/a/for-" \o applies \o "/values.bin" :
             applies \in {a \in {"states", "choices"} :
                 from_json(files[INDEX_JSON[1]]).val.annotations.val.aps.val[1][2].applies_to.val[1] = a}}

\* C15: reading a member that is absent from the archive raises an error
\* that aborts the load when the member is required, and returns None
\* without raising and without changing which members count as consumed
\* when it is optional.
C15_AbsentMember ==
    /\ [][(arg.op = "read_file" /\ pc \in {"opened", "read_once"}
              /\ dec'.call[1] \notin DOMAIN arg.value) =>
             IF dec'.call[2] THEN pc' = "failed" /\ dec'.err = "KeyError"
             ELSE /\ pc' # "failed" /\ dec'.err = ""
                  /\ dec'.value = None
                  /\ dec'.self.filename_read = dec.self.filename_read]_vars
    /\ [](arg.op = "load" =>
             /\ ~(RequiredFirst \subseteq DOMAIN arg.value) =>
                    /\ pc \in {"start", "opened", "failed"}
                    /\ pc = "failed" => dec.err = "KeyError"
             /\ ~(RequiredLast(arg.value) \subseteq DOMAIN arg.value) =>
                    /\ pc \in {"start", "opened", "states", "branches", "failed"}
                    /\ pc = "failed" => dec.err = "KeyError")

\* read_file has returned None for the optional markovian states of an
\* archive without them, after it had read the index
C15_OptionalAbsentReturnedNone ==
    /\ arg.op = "read_file" /\ pc = "read_twice"
    /\ DOMAIN arg.value = {INDEX_JSON[1], "extra.bin"}
    /\ dec.call = <<STATE_IS_MARKOVIAN[1], FALSE>>
    /\ dec.err = "" /\ dec.value = None
    /\ dec.self.filename_read[INDEX_JSON[1]]
    /\ ~dec.self.filename_read["extra.bin"]

\* C16: at the end of a load, a warning is issued for exactly those archive
\* members whose names were never requested through read_file during that
\* load: each member starts unconsumed, becomes consumed the first time
\* read_file is called with its name, and never reverts to unconsumed.
C16_UnreadFilesWarned ==
    /\ [](pc = "opened" => \A f \in DOMAIN arg.value : ~dec.self.filename_read[f])
    /\ [](pc \notin {"start", "validated"} /\ arg.op \in {"load", "read_file"} =>
             \A f \in DOMAIN arg.value :
                 dec.self.filename_read[f] <=> f \in dec.self.requested)
    /\ [](pc = "loaded" =>
             dec.warnings = {f \in DOMAIN arg.value : f \notin dec.self.requested})
    /\ [][(arg.op \in {"load", "read_file"} /\ pc # "start") =>
             \A f \in DOMAIN arg.value :
                 dec.self.filename_read[f] => dec'.self.filename_read[f]]_vars

\* a load has ended with warnings for the unknown file and for the CSR file
\* of the branch probabilities, which the index declares no type of, and
\* with none for the files it read
C16_UnknownFileWarned ==
    /\ arg.op = "load" /\ pc = "loaded"
    /\ dec.warnings = {"extra.bin", BRANCH_TO_PROBABILITY_CSR[1]}
    /\ {INDEX_JSON[1], STATE_IS_INITIAL[1], STATE_IS_MARKOVIAN[1], STATE_TO_PLAYER[1]}
           \subseteq DOMAIN arg.value


\* ------------------------------------------- the files of the valuations
\* A behaviour of SpecValuations draws a StructType with an alignment and a
\* list of valuations of it, and either hands them to add_variable_valuations
\* or hands to read_variable_valuations the two files of the documented
\* layout: the packed valuations and the CSR of their offsets divided by
\* the alignment.

\* largest struct alignment
MaxAlignment == 3

\* most valuations of a drawn list
MaxValuations == 2

\* the field lists of sized fields that struct_pack accepts
AlignedFieldLists ==
    {fields \in StructTypes(MaxFields) :
        /\ ByteAligned(fields)
        /\ \A i \in 1..Len(fields) : fields[i].kind = "padding" \/ fields[i].size # NoSize}

ValuationLists(fields) ==
    UNION {[1..n -> RecordsFrom(fields, 1)] : n \in 0..MaxValuations}

\* the byte offsets of the packed valuations: 0 and the end of each chunk
ChunkOffsets(fields, valuations) ==
    ranges_to_csr(ChunkRangesFrom([i \in 1..Len(valuations) |->
                                      struct_pack(fields, valuations[i]).val], 1, 0))

\* the files of the documented layout
ValuationFiles(alignment, fields, valuations) ==
    add_file(add_file(TarWriter, STATE_TO_VALUATION[1],
                      Join([i \in 1..Len(valuations) |->
                               struct_pack(fields, valuations[i]).val])),
             STATE_TO_VALUATION_CSR[1],
             IF Len(valuations) = 0 THEN Zeros(8)
             ELSE LET offsets == ChunkOffsets(fields, valuations).val
                  IN  vector_to_bytes([i \in 1..Len(offsets) |->
                                          BigOfInt(offsets[i] \div alignment)],
                                      TypeName("uint64")).val[1])

ValuationsInit ==
    /\ pc = "start"
    /\ enc = None
    /\ dec = None
    /\ \E alignment \in 1..MaxAlignment, fields \in AlignedFieldLists :
           \E valuations \in ValuationLists(fields) :
               \/ arg = [op |-> "add_valuations", type |-> StructType(alignment, fields),
                         value |-> valuations, rest |-> <<>>]
               \/ arg = [op |-> "read_valuations", type |-> StructType(alignment, fields),
                         value |-> ValuationFiles(alignment, fields, valuations),
                         rest |-> valuations]

\* UmbWriter.add_variable_valuations on a writer without files
AddVariableValuations ==
    /\ pc = "start" /\ arg.op = "add_valuations"
    /\ enc' = add_variable_valuations(TarWriter, arg.type, arg.value,
                                      STATE_TO_VALUATION, STATE_TO_VALUATION_CSR)
    /\ pc' = "written"
    /\ UNCHANGED <<arg, dec>>

\* UmbReader.read_variable_valuations on a reader of the drawn files
ReadVariableValuations ==
    /\ pc = "start" /\ arg.op = "read_valuations"
    /\ dec' = read_variable_valuations(UmbReader(arg.value), arg.type, Len(arg.rest),
                                       STATE_TO_VALUATION, STATE_TO_VALUATION_CSR)
    /\ pc' = "read"
    /\ UNCHANGED <<arg, enc>>

ValuationsNext == AddVariableValuations \/ ReadVariableValuations

SpecValuations == ValuationsInit /\ [][ValuationsNext]_vars

\* the offsets that the CSR file of the valuations holds
StoredOffsets(files) ==
    bytes_to_vector(files[STATE_TO_VALUATION_CSR[1]], TypeName("uint64"), None)

\* C18: for a struct payload with struct alignment a (any positive
\* integer), the writer stores each chunk offset divided by a and the reader
\* multiplies each stored offset by a, so the offsets the reader uses to
\* slice the payload equal the byte offsets the writer produced: the writer
\* returns the two files, the CSR file holds the offsets divided by a, and
\* the reader returns the valuations sliced at a times the stored offsets.
C18_AlignedOffsets ==
    /\ (arg.op = "add_valuations" /\ pc = "written") =>
           /\ enc.err = ""
           /\ {STATE_TO_VALUATION[1], STATE_TO_VALUATION_CSR[1]} \subseteq DOMAIN enc.val
           /\ StoredOffsets(enc.val).err = ""
           /\ Len(StoredOffsets(enc.val).val) = Len(arg.value) + 1
           /\ \A i \in 1..(Len(arg.value) + 1) :
                  /\ IntOfBig(StoredOffsets(enc.val).val[i])
                         = ChunkOffsets(arg.type.fields, arg.value).val[i]
                               \div arg.type.alignment
                  /\ IntOfBig(StoredOffsets(enc.val).val[i]) * arg.type.alignment
                         = ChunkOffsets(arg.type.fields, arg.value).val[i]
    /\ (arg.op = "read_valuations" /\ pc = "read"
           /\ \A i \in 1..(Len(arg.rest) + 1) :
                  ChunkOffsets(arg.type.fields, arg.rest).val[i] % arg.type.alignment = 0) =>
           /\ dec.err = ""
           /\ dec.val.value = Some(arg.rest)

\* add_variable_valuations raised on one valuation of a struct of alignment 1
\* with one attribute of 64 bits
C18_ValuationsNotWritten ==
    /\ arg.op = "add_valuations" /\ pc = "written"
    /\ arg.type = StructType(1, <<StructAttribute("a", "int", 64)>>)
    /\ arg.value = <<[a |-> BigOfInt(-1)]>>
    /\ enc.err = "AssertionError"


\* ------------------------------------------------ umbi.datatypes.struct
\* validate of StructPadding, StructAttribute and StructType.  A behaviour
\* of SpecFields draws an attribute, or a struct type of at most
\* MaxFields fields, of any type name and any size, and validates it.

StructPadding_validate(self) ==
    IF self.padding <= 0 THEN Raise("ValueError") ELSE Ok(None)

StructAttribute_validate(self) ==
    IF self.type \notin {"bool", "int", "uint", "double", "rational", "string"}
    THEN Raise("ValueError")
    ELSE IF self.size = NoSize
    THEN (IF self.type \in {"int", "uint"} THEN Raise("ValueError") ELSE Ok(None))
    ELSE IF self.size <= 0 THEN Raise("ValueError")
    ELSE IF self.type = "double" /\ self.size # 64 THEN Raise("ValueError")
    ELSE Ok(None)

RECURSIVE ValidateFieldsFrom(_, _)
\* the loop of StructType.validate from field i on
ValidateFieldsFrom(fields, i) ==
    IF i > Len(fields) THEN Ok(None)
    ELSE Then(IF fields[i].kind = "padding" THEN StructPadding_validate(fields[i])
              ELSE StructAttribute_validate(fields[i]),
              LAMBDA valid : ValidateFieldsFrom(fields, i + 1))

StructType_validate(self) == ValidateFieldsFrom(self.fields, 1)

\* sizes of a drawn attribute: none, and integers below, at and above 0
AttributeSizes == {NoSize, -2, 0, 1, 32, 64}

\* type names of a drawn attribute
AttributeTypes == {"bool", "int", "uint", "double", "rational", "string", "bytes"}

\* paddings of a drawn field
PaddingSizes == {-2, 0, 1}

AnyFields(i) ==
    {StructPadding(padding) : padding \in PaddingSizes}
        \cup {StructAttribute(FieldNames[i], type, size) :
                 type \in AttributeTypes, size \in AttributeSizes}

FieldsInit ==
    /\ pc = "start"
    /\ enc = None
    /\ dec = None
    /\ \/ \E field \in AnyFields(1) :
              /\ field.kind = "attribute"
              /\ arg = [op |-> "attribute", type |-> "StructAttribute", value |-> field,
                        rest |-> <<>>]
       \/ \E n \in 0..MaxFields : \E fields \in [1..n -> AnyFields(1) \cup AnyFields(2)] :
              /\ \A i \in 1..n : fields[i].kind = "attribute" => fields[i].name = FieldNames[i]
              /\ arg = [op |-> "struct_type", type |-> "StructType",
                        value |-> StructType(1, fields), rest |-> <<>>]

\* StructAttribute.validate
ValidateAttribute ==
    /\ pc = "start" /\ arg.op = "attribute"
    /\ dec' = StructAttribute_validate(arg.value)
    /\ pc' = "validated"
    /\ UNCHANGED <<arg, enc>>

\* StructType.validate
ValidateStructType ==
    /\ pc = "start" /\ arg.op = "struct_type"
    /\ dec' = StructType_validate(arg.value)
    /\ pc' = "validated"
    /\ UNCHANGED <<arg, enc>>

FieldsNext == ValidateAttribute \/ ValidateStructType

SpecFields == FieldsInit /\ [][FieldsNext]_vars

\* an attribute of a type of fixed size in bits without a positive size, or
\* a double whose size is not 64
BadlySized(field) ==
    /\ field.kind = "attribute"
    /\ field.type \in {"bool", "int", "uint", "double"}
    /\ \/ field.size = NoSize
       \/ field.size <= 0
       \/ field.type = "double" /\ field.size # 64

\* C20: validation of a struct attribute rejects every attribute of type
\* bool, int, uint or double that has no size or a non-positive size, and
\* rejects every double attribute whose size is not exactly 64; and so does
\* the validation of a struct type that holds such an attribute.
C20_SizesValidated ==
    /\ (arg.op = "attribute" /\ pc = "validated" /\ BadlySized(arg.value))
           => dec.err = "ValueError"
    /\ (arg.op = "struct_type" /\ pc = "validated"
           /\ \E i \in 1..Len(arg.value.fields) : BadlySized(arg.value.fields[i]))
           => dec.err = "ValueError"

\* validate has accepted a bool attribute without size
C20_BoolWithoutSizeAccepted ==
    /\ arg.op = "attribute" /\ pc = "validated"
    /\ arg.value = StructAttribute("a", "bool", NoSize)
    /\ dec.err = ""

\* ------------------------------------------------- the common type of a set
\* A behaviour of SpecPromotion draws a set of type names and hands it to
\* can_promote_numeric_to or to can_promote_to.

NumericTypes == {"int", "double", "rational", "double-interval", "rational-interval"}

\* the type names a set is drawn from
DrawnTypes == NumericTypes \cup {"uint64", "string"}

PromotionInit ==
    /\ pc = "start"
    /\ enc = None
    /\ dec = None
    /\ \E types \in SUBSET DrawnTypes, op \in {"can_promote_numeric_to", "can_promote_to"} :
           arg = [op |-> op, type |-> "set", value |-> types, rest |-> <<>>]

CanPromoteNumericTo ==
    /\ pc = "start" /\ arg.op = "can_promote_numeric_to"
    /\ dec' = can_promote_numeric_to(arg.value)
    /\ pc' = "promoted"
    /\ UNCHANGED <<arg, enc>>

CanPromoteTo ==
    /\ pc = "start" /\ arg.op = "can_promote_to"
    /\ dec' = can_promote_to(arg.value)
    /\ pc' = "promoted"
    /\ UNCHANGED <<arg, enc>>

PromotionNext == CanPromoteNumericTo \/ CanPromoteTo

SpecPromotion == PromotionInit /\ [][PromotionNext]_vars

\* a value of a numeric type
SampleOf(type) ==
    CASE type = "int" -> One
      [] type = "double" -> OneDouble
      [] type = "rational" -> Half
      [] type = "double-interval" -> Value("double-interval", <<OneDouble, OneDouble>>)
      [] type = "rational-interval" -> Value("rational-interval", <<Half, Half>>)

\* promote_numeric takes the values of type a to type b
PromotesTo(a, b) == promote_numeric(SampleOf(a), b).err = ""

\* the order int <= double <= double-interval, int <= rational <=
\* rational-interval
ChainLeq(a, b) ==
    \/ a = b
    \/ a = "int"
    \/ a = "double" /\ b = "double-interval"
    \/ a = "rational" /\ b = "rational-interval"

\* target is the least upper bound of types under Leq
IsLub(target, types, Leq(_, _)) ==
    /\ target \in NumericTypes
    /\ \A t \in types : Leq(t, target)
    /\ \A u \in NumericTypes : (\A t \in types : Leq(t, u)) => Leq(target, u)

\* a call on a non-empty set of numeric types has returned
PromotedNumericSet ==
    /\ pc = "promoted"
    /\ arg.value # {} /\ arg.value \subseteq NumericTypes

\* what C21 says of rationals with intervals and of singleton sets
MixAndSingleton ==
    /\ ("rational" \in arg.value
           /\ arg.value \cap {"double-interval", "rational-interval"} # {})
           => dec.val = "rational-interval"
    /\ Cardinality(arg.value) = 1 => arg.value = {dec.val}

\* C21: for every non-empty set of numeric types drawn from {int, double,
\* rational, double-interval, rational-interval}, the common promotion type
\* is the least upper bound under the order in which a <= b when
\* promote_numeric takes the values of a to b (int <= double <=
\* double-interval, int <= rational <= rational-interval, and also double <=
\* rational and double-interval <= rational-interval); any set containing
\* rational together with an interval type yields rational-interval, and a
\* singleton set yields its own member.
C21_PromotionIsLub ==
    /\ \A a, b \in NumericTypes : ChainLeq(a, b) => PromotesTo(a, b)
    /\ PromotedNumericSet =>
           /\ dec.err = ""
           /\ IsLub(dec.val, arg.value, PromotesTo)
           /\ MixAndSingleton

\* C21 as stated: the least upper bound under int <= double <=
\* double-interval and int <= rational <= rational-interval alone
C21_LubOfTheTwoChains ==
    PromotedNumericSet =>
        /\ dec.err = ""
        /\ IsLub(dec.val, arg.value, ChainLeq)
        /\ MixAndSingleton

\* can_promote_numeric_to has returned rational for {double, rational}
C21_DoubleWithRational ==
    /\ pc = "promoted" /\ arg.op = "can_promote_numeric_to"
    /\ arg.value = {"double", "rational"}
    /\ dec = Ok("rational")

\* ------------------------------------------- null values of a JSON object
\* A behaviour of SpecJson draws a JSON value and hands it to
\* json_remove_none_dict_values.

\* deepest nesting of the drawn values that are drawn in full
MaxDepth == 2

RECURSIVE JsonValues(_)
\* the JSON values nested at most depth deep, in a list: null, a number, the
\* lists of at most two values and the dicts over the keys "a" and "b"
JsonValues(depth) ==
    IF depth = 0 THEN <<JNull, JNumber(One)>>
    ELSE LET inner == JsonValues(depth - 1)
             n == Len(inner)
             first(k) == inner[((k - 1) \div n) + 1]
             second(k) == inner[((k - 1) % n) + 1]
         IN  <<JNull, JNumber(One), JList(<<>>), JDict(<<>>)>>
             \o [k \in 1..n |-> JList(<<inner[k]>>)]
             \o [k \in 1..(n * n) |-> JList(<<first(k), second(k)>>)]
             \o [k \in 1..n |-> JDict(<< <<"a", inner[k]>> >>)]
             \o [k \in 1..n |-> JDict(<< <<"b", inner[k]>> >>)]
             \o [k \in 1..(n * n) |-> JDict(<< <<"a", first(k)>>, <<"b", second(k)>> >>)]

\* the values of JsonValues(MaxDepth), and each of them as the one value of
\* a dict and as the one element of a list
JsonInputs ==
    LET values == JsonValues(MaxDepth)
    IN  values
        \o [k \in 1..Len(values) |-> JDict(<< <<"a", values[k]>> >>)]
        \o [k \in 1..Len(values) |-> JList(<<values[k]>>)]

JsonInit ==
    /\ pc = "start"
    /\ enc = None
    /\ dec = None
    /\ \E k \in 1..Len(JsonInputs) :
           arg = [op |-> "json_remove_none_dict_values", type |-> "json",
                  value |-> JsonInputs[k], rest |-> <<>>]

JsonRemoveNoneDictValues ==
    /\ pc = "start"
    /\ dec' = Ok(json_remove_none_dict_values(arg.value))
    /\ pc' = "removed"
    /\ UNCHANGED <<arg, enc>>

JsonNext == JsonRemoveNoneDictValues

SpecJson == JsonInit /\ [][JsonNext]_vars

RECURSIVE Nodes(_, _, _)
\* the nodes of a JSON value: the path of keys and indices to each, with the
\* primitive value there or the kind of container; under_null_key tells
\* whether the path passes a key of a dict whose value is null
Nodes(json_obj, path, under_null_key) ==
    IF json_obj.json = "dict"
    THEN {<<path, [json |-> "dict"], under_null_key>>}
         \cup UNION {Nodes(json_obj.value[i][2], Append(path, [key |-> json_obj.value[i][1]]),
                           under_null_key \/ json_obj.value[i][2].json = "null") :
                        i \in 1..Len(json_obj.value)}
    ELSE IF json_obj.json = "list"
    THEN {<<path, [json |-> "list"], under_null_key>>}
         \cup UNION {Nodes(json_obj.value[i], Append(path, [index |-> i]), under_null_key) :
                        i \in 1..Len(json_obj.value)}
    ELSE {<<path, json_obj, under_null_key>>}

\* C23: emitting a JSON value removes every object key whose value is null at
\* every nesting depth (inside nested objects and inside objects contained in
\* arrays), keeps null elements of arrays, and leaves every other key, value
\* and array element unchanged: the nodes of the result are the nodes of the
\* value that are not the null value of a key, at the same paths.
C23_NullKeysRemoved ==
    pc = "removed" =>
        /\ dec.err = ""
        /\ Nodes(dec.val, <<>>, FALSE)
               = {node \in Nodes(arg.value, <<>>, FALSE) : ~node[3]}

\* a null was removed from a dict inside a list inside a dict, and the null
\* element of the list was kept
C23_NullRemovedInsideList ==
    /\ pc = "removed"
    /\ Nodes(arg.value, <<>>, FALSE)
           = Nodes(JDict(<< <<"a", JList(<<JNull, JDict(<< <<"a", JNull>>,
                                                           <<"b", JNumber(One)>> >>)>>)>> >>),
                   <<>>, FALSE)
    /\ Nodes(dec.val, <<>>, FALSE)
           = Nodes(JDict(<< <<"a", JList(<<JNull, JDict(<< <<"b", JNumber(One)>> >>)>>)>> >>),
                   <<>>, FALSE)

\* ------------------------------------------------ the manifest as JSON
\* A behaviour of SpecManifest draws an UmbIndex, emits its JSON with
\* to_json and parses that with from_json; or it draws the JSON of an
\* UmbIndex, with or without one more key, and parses it; or it draws an
\* archive, with or without one more key in its index.json, and runs
\* read_ats on it.

\* most states of a drawn index
MaxIndexStates == 2

\* the struct types of the state valuations of a drawn index
IndexValuations ==
    {None, Some(StructType(1, <<>>)),
     Some(StructType(8, <<StructAttribute("a", "uint", 8)>>)),
     Some(StructType(8, <<StructAttribute("a", "string", NoSize)>>)),
     Some(StructType(8, <<StructAttribute("a", "bool", 1), StructPadding(7)>>))}

IndexModelData ==
    {None,
     Some([name |-> Some("m"), version |-> None, authors |-> Some(<<"x", "y">>),
           description |-> None, comment |-> None, doi |-> None, url |-> None])}

IndexInputs ==
    {[UmbIndexOf(n, probability_type, rate_type, annotations[1], state_valuations)
         EXCEPT !.model_data = model_data] :
        n \in 0..MaxIndexStates,
        probability_type \in {None, Some("double"), Some("rational")},
        rate_type \in {None, Some("double")},
        annotations \in UmbAnnotations(1),
        state_valuations \in IndexValuations,
        model_data \in IndexModelData}

\* the unknown key and its value
UnknownKey == "foo"

UnknownValue == JString("bar")

\* the JSON dict with one more key
WithKey(d, key, value) == JDict(Append(d.value, <<key, value>>))

\* the files with the unknown key in their index.json
WithUnknownKey(files) ==
    [files EXCEPT ![INDEX_JSON[1]] = WithKey(files[INDEX_JSON[1]], UnknownKey, UnknownValue)]

\* the files without it
WithoutUnknownKey(files) ==
    [files EXCEPT ![INDEX_JSON[1]] =
        JDict(SelectSeq(files[INDEX_JSON[1]].value, LAMBDA item : item[1] # UnknownKey))]

\* the drawn ExplicitUmb of one state whose archives are loaded
ArchiveInputs ==
    {umb \in UmbInputsOf(1) :
        ~umb.state_is_initial.none /\ umb.state_to_choice.none /\ umb.action_to_string.none}

\* the index.json of the files
Manifest(files) == files[INDEX_JSON[1]]

ManifestInit ==
    /\ pc = "start"
    /\ enc = None
    /\ dec = None
    /\ \/ \E umb \in ArchiveInputs, with_key \in BOOLEAN :
              arg = [op |-> "read_ats", type |-> "ExplicitUmb", value |-> umb,
                     rest |-> with_key]
       \/ \E index \in IndexInputs :
           \/ arg = [op |-> "to_json", type |-> "UmbIndex", value |-> index, rest |-> <<>>]
           \/ /\ to_json(index).err = ""
              /\ \/ arg = [op |-> "from_json", type |-> "json",
                           value |-> to_json(index).val, rest |-> <<>>]
                 \/ arg = [op |-> "from_json", type |-> "json",
                           value |-> WithKey(to_json(index).val, UnknownKey, UnknownValue),
                           rest |-> <<>>]

\* UmbIndex.to_json
ToJson ==
    /\ pc = "start" /\ arg.op = "to_json"
    /\ enc' = to_json(arg.value)
    /\ pc' = "emitted"
    /\ UNCHANGED <<arg, dec>>

\* the result of from_json and the warnings that make_object logged
Parsed(json_obj) ==
    With(from_json(json_obj), LAMBDA parsed :
        [err |-> parsed.err, val |-> parsed.val,
         warnings |-> IF parsed.err = "" THEN extra_fields(json_obj) ELSE {}])

\* UmbIndex.from_json, of the JSON that to_json returned or that was drawn
FromJson ==
    /\ \/ pc = "emitted" /\ enc.err = "" /\ dec' = Parsed(enc.val)
       \/ pc = "start" /\ arg.op = "from_json" /\ dec' = Parsed(arg.value)
    /\ pc' = "parsed"
    /\ UNCHANGED <<arg, enc>>

\* the archive to load: the files that write_umb writes of the drawn
\* ExplicitUmb, as they are or with the unknown key in their index.json
WriteArchive ==
    /\ pc = "start" /\ arg.op = "read_ats"
    /\ enc' = Then(write_umb(arg.value), LAMBDA files :
                  Ok(IF arg.rest THEN WithUnknownKey(files) ELSE files))
    /\ pc' = "archived"
    /\ UNCHANGED <<arg, dec>>

\* read_ats: read_umb on the archive, with the warnings of the parser
ReadArchive ==
    /\ pc = "archived" /\ enc.err = ""
    /\ dec' = With(read_umb(enc.val), LAMBDA umb :
                  [err |-> umb.err, val |-> umb.val,
                   warnings |-> IF umb.err = "" THEN extra_fields(Manifest(enc.val)) ELSE {}])
    /\ pc' = "read"
    /\ UNCHANGED <<arg, enc>>

\* read_ats: explicit_umb_to_explicit_ats on the ExplicitUmb that was read
ConvertArchive ==
    /\ pc = "read" /\ dec.err = ""
    /\ dec' = With(explicit_umb_to_explicit_ats(dec.val), LAMBDA ats :
                  [err |-> ats.err, val |-> ats.val, warnings |-> dec.warnings])
    /\ pc' = "loaded"
    /\ UNCHANGED <<arg, enc>>

ManifestNext == ToJson \/ FromJson \/ WriteArchive \/ ReadArchive \/ ConvertArchive

SpecManifest == ManifestInit /\ [][ManifestNext]_vars

\* C22: for every manifest m produced by a writer, parsing the JSON emitted
\* for m yields a manifest equal to m (parse(emit(m)) = m); the manifests of
\* a writer are those that add_index accepts.
C22_ParseOfEmit ==
    (arg.op = "to_json" /\ pc = "parsed" /\ JsonSchemaResult_validate(arg.value).err = "") =>
        /\ dec.err = ""
        /\ dec.val = arg.value

\* from_json of the JSON of an index whose state valuations have a padding
\* has returned the padding as a dict
C22_PaddingParsedAsDict ==
    /\ arg.op = "to_json" /\ pc = "parsed"
    /\ JsonSchemaResult_validate(arg.value).err = ""
    /\ arg.value.state_valuations
           = Some(StructType(8, <<StructAttribute("a", "bool", 1), StructPadding(7)>>))
    /\ dec.err = ""
    /\ dec.val.state_valuations.val.fields[2] = [kind |-> "dict", padding |-> 7]

\* C25: when the manifest parser meets an unknown top-level key it logs a
\* warning and preserves the key with its value in the parsed manifest
\* representation.
C25_UnknownKeyPreserved ==
    (arg.op = "from_json" /\ pc = "parsed" /\ ItemsHas(arg.value.value, UnknownKey)) =>
        /\ dec.err = ""
        /\ UnknownKey \in dec.warnings
        /\ UnknownKey \in DOMAIN dec.val
        /\ dec.val[UnknownKey] = UnknownValue

\* from_json has warned of the unknown key and returned an UmbIndex of the
\* seven fields of the dataclass
C25_UnknownKeyDropped ==
    /\ arg.op = "from_json" /\ pc = "parsed"
    /\ ItemsHas(arg.value.value, UnknownKey)
    /\ dec.err = "" /\ dec.warnings = {UnknownKey}
    /\ DOMAIN dec.val = {"format_version", "format_revision", "model_data", "file_data",
                         "transition_system", "annotations", "state_valuations"}

\* C24: loading an archive whose index.json carries an extra unknown
\* top-level key yields, apart from a warning, exactly the same ATS as
\* loading the same archive without that key, and writing that ATS back
\* produces a manifest that does not contain the unknown key.
C24_UnknownKeyIgnored ==
    (arg.op = "read_ats" /\ arg.rest /\ pc \in {"read", "loaded"}) =>
        /\ pc = "read" => dec.err = "" /\ UnknownKey \in dec.warnings
        /\ pc = "loaded" =>
               /\ dec.err = ""
               /\ read_ats(WithoutUnknownKey(enc.val)) = Ok(dec.val)
               /\ \A now \in 0..MaxTime :
                      /\ write_ats(dec.val, now).err = ""
                      /\ ~ItemsHas(Manifest(write_ats(dec.val, now).val).value, UnknownKey)

\* read_ats of an archive with the unknown key has read the ExplicitUmb of
\* the archive without the key and has raised on converting it
C24_LoadWithKeyRaised ==
    /\ arg.op = "read_ats" /\ arg.rest /\ pc = "loaded"
    /\ ItemsHas(Manifest(enc.val).value, UnknownKey)
    /\ dec.warnings = {UnknownKey}
    /\ read_umb(enc.val) = read_umb(WithoutUnknownKey(enc.val))
    /\ read_umb(enc.val).err = ""
    /\ dec.err = "AttributeError"

\* ------------------------------------------- the files of the annotations
\* A behaviour of SpecAnnotations draws an ExplicitUmb of one state with one
\* annotation, a reward or an atomic proposition: the applies_to that its
\* index declares and the keys of its dict applies-to -> values are chosen
\* independently of each other, as a caller can set the fields of the
\* dataclass. write_umb writes it and read_umb reads the archive.

AppliesToLabels == <<"states", "choices", "branches">>

\* the lists of some of the labels, each in the order of AppliesToLabels
AppliesToLists ==
    {SelectSeq(AppliesToLabels, LAMBDA applies : applies \in labels) :
        labels \in SUBSET {AppliesToLabels[i] : i \in 1..Len(AppliesToLabels)}}

\* the dict applies-to -> values of an annotation of the type over n items
AppliesValuesOf(applies_to, annotation_type, n) ==
    [j \in 1..Len(applies_to) |->
        <<applies_to[j],
          [i \in 1..n |-> IF annotation_type = "bool" THEN Value("bool", TRUE)
                          ELSE OneDouble]>>]

\* the ExplicitUmb of one state with the annotation "a" under the label
AnnotatedUmb(label, applies_to, type, keys) ==
    With(<<<<"a", Annotation(None, None, applies_to, type, None, None)>>>>, LAMBDA info :
    With(Some(<<<<"a", AppliesValuesOf(keys, IF type.none THEN "bool" ELSE type.val, 1)>>>>),
         LAMBDA values :
        [ExplicitUmb EXCEPT
            !.index = UmbIndexOf(1, None, None,
                                 Some(IF label = "rewards" THEN Annotations(Some(info), None)
                                      ELSE Annotations(None, Some(info))),
                                 None),
            !.state_is_initial = Some(<<TRUE>>),
            !.branch_to_target = Some(Zeros(1)),
            !.choice_to_action = Some(Zeros(1)),
            !.rewards = IF label = "rewards" THEN values ELSE None,
            !.aps = IF label = "aps" THEN values ELSE None]))

AnnotationsInit ==
    /\ pc = "start"
    /\ enc = None
    /\ dec = None
    /\ \E label \in {"rewards", "aps"}, type \in {None, Some("bool"), Some("double")},
          applies_to \in {None} \cup {Some(l) : l \in AppliesToLists},
          keys \in AppliesToLists :
           arg = [op |-> "write_umb", type |-> "ExplicitUmb",
                  value |-> AnnotatedUmb(label, applies_to, type, keys),
                  rest |-> <<label, keys>>]

\* write_umb(umb, umbpath)
WriteAnnotated ==
    /\ pc = "start" /\ arg.op = "write_umb"
    /\ enc' = write_umb(arg.value)
    /\ pc' = "written"
    /\ UNCHANGED <<arg, dec>>

\* read_umb(umbpath) on the archive that was written, with the files that
\* list_unread_files warns about
ReadAnnotated ==
    /\ pc = "written" /\ arg.op = "write_umb" /\ enc.err = ""
    /\ dec' = With(Then(ReadStates(UmbReader(enc.val), ExplicitUmb), LAMBDA r1 :
                   Then(ReadBranches(r1.self, r1.value), LAMBDA r2 :
                       ReadAnnotations(r2.self, r2.value))), LAMBDA read :
                  IF read.err # "" THEN [err |-> read.err, val |-> <<>>, warnings |-> {}]
                  ELSE [err |-> "", val |-> read.val.value,
                        warnings |-> list_unread_files(read.val.self)])
    /\ pc' = "read"
    /\ UNCHANGED <<arg, enc>>

AnnotationsNext == WriteAnnotated \/ ReadAnnotated

SpecAnnotations == AnnotationsInit /\ [][AnnotationsNext]_vars

\* the annotation "a" of the index of the umb
DeclaredAnnotation(umb, label) ==
    IF label = "rewards" THEN umb.index.annotations.val.rewards.val[1][2]
    ELSE umb.index.annotations.val.aps.val[1][2]

\* the applies-to set that the index declares for the annotation
DeclaredAppliesTo(annotation) ==
    IF annotation.applies_to.none THEN {"states"}
    ELSE {annotation.applies_to.val[i] : i \in 1..Len(annotation.applies_to.val)}

\* the applies-to labels that the files hold a values file of "a" for
EmittedAppliesTo(files, label) ==
    {AppliesToLabels[i] : i \in
        {j \in 1..Len(AppliesToLabels) :
            ("annotations/" \o label \o "/a/for-" \o AppliesToLabels[j] \o "/values.bin")
                \in DOMAIN files}}

\* C27: for every annotation, the set of applies-to labels for which the
\* writer emits a values file equals the applies-to set declared for that
\* annotation in the manifest (defaulting to states), so that loading an
\* archive the writer produced finds every annotation file it requires and
\* leaves no annotation file unconsumed.
C27_EmittedIsDeclared ==
    (arg.op = "write_umb" /\ pc \in {"written", "read"} /\ enc.err = "") =>
        /\ EmittedAppliesTo(enc.val, arg.rest[1])
               = DeclaredAppliesTo(DeclaredAnnotation(arg.value, arg.rest[1]))
        /\ pc = "read" => dec.err = "" /\ dec.warnings = {}

\* write_umb of an atomic proposition that the index declares for the states
\* and that has values for the choices has written the file of the choices
\* alone, and read_umb of the archive has raised on the file of the states
C27_ChoicesWrittenStatesRequired ==
    /\ arg.op = "write_umb" /\ pc = "read"
    /\ arg.rest = <<"aps", <<"choices">>>>
    /\ DeclaredAnnotation(arg.value, "aps").applies_to = Some(<<"states">>)
    /\ enc.err = ""
    /\ EmittedAppliesTo(enc.val, "aps") = {"choices"}
    /\ dec.err = "KeyError"

\* ---------------------------------------------------- set_initial_states
\* A behaviour of SpecInitial draws an ExplicitAts of some states, with the
\* flags and the count of initial states it had, and a list of integers;
\* set_initial_states is called with the list, and validate() after it
\* returned.

\* largest length of the list given to set_initial_states
MaxInitial == 2

RECURSIVE SetInitialStatesFrom(_, _, _)
\* the loop of set_initial_states, from item i on, and its last assignment;
\* a negative index of a list counts from its end, and an index outside of
\* the list raises IndexError
SetInitialStatesFrom(self, states_given, i) ==
    IF i > Len(states_given)
    THEN [err |-> "", self |-> [self EXCEPT !.num_initial_states = Len(states_given)]]
    ELSE With(states_given[i], LAMBDA s :
        IF s >= self.num_states THEN [err |-> "ValueError", self |-> self]
        ELSE IF s < -self.num_states THEN [err |-> "IndexError", self |-> self]
        ELSE SetInitialStatesFrom(
                 [self EXCEPT !.state_is_initial =
                     Some([self.state_is_initial.val EXCEPT
                              ![(IF s < 0 THEN s + self.num_states ELSE s) + 1] = TRUE])],
                 states_given, i + 1))

\* ExplicitAts.set_initial_states: the error it raised, if any, and the
\* object after the call
set_initial_states(self, states_given) ==
    SetInitialStatesFrom(
        [self EXCEPT !.state_is_initial = Some([s \in 1..self.num_states |-> FALSE])],
        states_given, 1)

InitialInit ==
    /\ pc = "start"
    /\ enc = None
    /\ dec = None
    /\ \E n \in 0..MaxStates :
       \E state_is_initial \in [1..n -> BOOLEAN],
          states_given \in UNION {[1..k -> (-(MaxStates + 1))..MaxStates] :
                                       k \in 0..MaxInitial} :
           arg = [op |-> "set_initial_states", type |-> "ExplicitAts",
                  value |-> [ExplicitAts EXCEPT
                                !.num_states = n,
                                !.state_is_initial = Some(state_is_initial),
                                !.num_initial_states =
                                    Cardinality({s \in 1..n : state_is_initial[s]})],
                  rest |-> states_given]

\* ats.set_initial_states(initial_states)
SetInitialStates ==
    /\ pc = "start" /\ arg.op = "set_initial_states"
    /\ dec' = set_initial_states(arg.value, arg.rest)
    /\ pc' = "set"
    /\ UNCHANGED <<arg, enc>>

\* ats.validate() after set_initial_states returned
ValidateInitialStates ==
    /\ pc = "set" /\ arg.op = "set_initial_states" /\ dec.err = ""
    /\ enc' = validate(dec.self)
    /\ pc' = "validated"
    /\ UNCHANGED <<arg, dec>>

InitialNext == SetInitialStates \/ ValidateInitialStates

SpecInitial == InitialInit /\ [][InitialNext]_vars

\* C28: after set_initial_states(L) returns without error on an ATS with
\* N_s states, state_is_initial has length N_s, state_is_initial[s] is True
\* exactly for the indices s in L, every such s lies in [0, N_s), and
\* num_initial_states equals the number of True entries of state_is_initial;
\* if the call raises, state_is_initial and num_initial_states are left as
\* they were before the call.
C28_InitialStatesSet ==
    (arg.op = "set_initial_states" /\ pc \in {"set", "validated"}) =>
        IF dec.err = ""
        THEN /\ Len(dec.self.state_is_initial.val) = arg.value.num_states
             /\ \A s \in 0..(arg.value.num_states - 1) :
                    dec.self.state_is_initial.val[s + 1]
                        <=> (\E i \in 1..Len(arg.rest) : arg.rest[i] = s)
             /\ \A i \in 1..Len(arg.rest) :
                    arg.rest[i] >= 0 /\ arg.rest[i] < arg.value.num_states
             /\ dec.self.num_initial_states
                    = Cardinality({s \in 1..arg.value.num_states :
                                      dec.self.state_is_initial.val[s]})
        ELSE /\ dec.self.state_is_initial = arg.value.state_is_initial
             /\ dec.self.num_initial_states = arg.value.num_initial_states

\* set_initial_states([0, 0]) on an ATS of one state has returned with one
\* flag set and num_initial_states = 2, and validate() has then raised
C28_DuplicateCountedTwice ==
    /\ arg.op = "set_initial_states" /\ pc = "validated"
    /\ arg.value.num_states = 1 /\ arg.rest = <<0, 0>>
    /\ dec.err = ""
    /\ dec.self.state_is_initial = Some(<<TRUE>>)
    /\ dec.self.num_initial_states = 2
    /\ enc.err = "ValueError"

\* ------------------------------------------------------- ItemValuations
\* A behaviour of SpecItems starts from ItemValuations() and calls
\* add_variable, remove_variable, ensure_capacity, set_item_valuation,
\* get_item_valuation and validate on it, at most MaxCalls times. The
\* object is in enc; dec is the last call and the error it raised, if any.

\* largest number of calls of a behaviour
MaxCalls == 4

\* largest item index given to a call
MaxItem == 1

VariableNames == <<"x", "y">>

\* the value that set_item_valuation is given for a variable
Five == Value("int", BigOfInt(5))

has_variable(self, variable_name) ==
    \E i \in 1..Len(self.variables) : self.variables[i].variable.name = variable_name

\* the position of the variable of that name in the dict of the variables
VariableIndex(self, variable_name) ==
    CHOOSE i \in 1..Len(self.variables) : self.variables[i].variable.name = variable_name

add_variable(self, variable_name) ==
    IF has_variable(self, variable_name) THEN Called("ValueError", self)
    ELSE Called("", [self EXCEPT !.variables =
                        Append(@, VariableValuations(Variable(variable_name)))])

remove_variable(self, variable_name) ==
    IF ~has_variable(self, variable_name) THEN Called("KeyError", self)
    ELSE Called("", [self EXCEPT !.variables =
                        SelectSeq(@, LAMBDA v : v.variable.name # variable_name)])

\* VariableValuations.ensure_capacity
VariableValuations_ensure_capacity(self, num_items) ==
    IF Len(self.values) >= num_items THEN self
    ELSE [self EXCEPT !.values = @ \o [i \in 1..(num_items - Len(@)) |-> PyNone]]

\* ItemValuations.ensure_capacity
ensure_capacity(self, num_items) ==
    [self EXCEPT
        !.variables = [i \in 1..Len(@) |-> VariableValuations_ensure_capacity(@[i], num_items)],
        !.num_items = IF @ < num_items THEN num_items ELSE @]

\* VariableValuations.set_item_value; a negative index of a list counts from
\* its end, and an index outside of the list raises IndexError
set_item_value(self, item, value) ==
    With(VariableValuations_ensure_capacity(self, item + 1), LAMBDA ensured :
        IF item < -Len(ensured.values) THEN Called("IndexError", ensured)
        ELSE Called("", [ensured EXCEPT
                            !.values[IF item < 0 THEN Len(ensured.values) + item + 1
                                     ELSE item + 1] = value]))

RECURSIVE SetItemValuationFrom(_, _, _, _)
\* the loop of set_item_valuation over the items of valuations, from item i on
SetItemValuationFrom(self, item, valuations, i) ==
    IF i > Len(valuations) THEN Called("", self)
    ELSE IF ~has_variable(self, valuations[i][1]) THEN Called("KeyError", self)
    ELSE With(VariableIndex(self, valuations[i][1]), LAMBDA k :
         With(set_item_value(self.variables[k], item, valuations[i][2]), LAMBDA set :
         With([self EXCEPT !.variables[k] = set.self], LAMBDA next :
             IF set.err # "" THEN Called(set.err, next)
             ELSE SetItemValuationFrom(next, item, valuations, i + 1))))

set_item_valuation(self, item, valuations) ==
    SetItemValuationFrom(ensure_capacity(self, item + 1), item, valuations, 1)

\* get_item_valuation: the dict variable name -> value, or the IndexError of
\* the method or of get_item_value
get_item_valuation(self, item) ==
    IF item < 0 \/ item >= self.num_items THEN Raise("IndexError")
    ELSE IF \E i \in 1..Len(self.variables) : item >= Len(self.variables[i].values)
    THEN Raise("IndexError")
    ELSE Ok([i \in 1..Len(self.variables) |->
                <<self.variables[i].variable.name, self.variables[i].values[item + 1]>>])

\* the calls made so far and the last of them
Call(calls, op, item, err) == [calls |-> calls, op |-> op, item |-> item, err |-> err]

ItemsInit ==
    /\ pc = "start"
    /\ arg = [op |-> "items", type |-> "ItemValuations", value |-> ItemValuations(0),
              rest |-> <<>>]
    /\ enc = arg.value
    /\ dec = Call(0, "", 0, "")

\* the object and the record of the call after a call that may have changed
\* the object
AfterCall(op, item, called) ==
    /\ dec.calls < MaxCalls
    /\ enc' = called.self
    /\ dec' = Call(dec.calls + 1, op, item, called.err)
    /\ pc' = "called"
    /\ UNCHANGED arg

AddVariable ==
    /\ arg.op = "items"
    /\ \E k \in 1..Len(VariableNames) :
           AfterCall("add_variable", 0, add_variable(enc, VariableNames[k]))

RemoveVariable ==
    /\ arg.op = "items"
    /\ \E k \in 1..Len(VariableNames) :
           AfterCall("remove_variable", 0, remove_variable(enc, VariableNames[k]))

EnsureCapacity ==
    /\ arg.op = "items"
    /\ \E num_items \in 0..(MaxItem + 1) :
           AfterCall("ensure_capacity", num_items, Called("", ensure_capacity(enc, num_items)))

SetItemValuation ==
    /\ arg.op = "items"
    /\ \E item \in (-1)..MaxItem,
          names \in {<<>>, <<"x">>, <<"y">>, <<"x", "y">>} :
           AfterCall("set_item_valuation", item,
                     set_item_valuation(enc, item,
                                        [i \in 1..Len(names) |-> <<names[i], Five>>]))

GetItemValuation ==
    /\ arg.op = "items"
    /\ \E item \in (-1)..(MaxItem + 1) :
           AfterCall("get_item_valuation", item,
                     Called(get_item_valuation(enc, item).err, enc))

ValidateItems ==
    /\ arg.op = "items"
    /\ AfterCall("validate", 0, ItemValuations_validated(enc))

ItemsNext ==
    \/ AddVariable \/ RemoveVariable \/ EnsureCapacity \/ SetItemValuation
    \/ GetItemValuation \/ ValidateItems

SpecItems == ItemsInit /\ [][ItemsNext]_vars

\* C29: after any sequence of add_variable, remove_variable, ensure_capacity
\* and set_item_valuation calls on an ItemValuations, num_items never
\* decreases and every variable's value list has length exactly num_items,
\* so get_item_valuation(i) succeeds for every i in [0, num_items) and
\* validate() does not fail on an item-count mismatch.
C29_ListsHaveNumItems ==
    /\ [][arg.op = "items" => enc'.num_items >= enc.num_items]_vars
    /\ [](arg.op = "items" =>
             /\ \A i \in 1..Len(enc.variables) :
                    Len(enc.variables[i].values) = enc.num_items
             /\ \A item \in 0..(enc.num_items - 1) :
                    get_item_valuation(enc, item).err = ""
             /\ (dec.op = "validate" /\ dec.err = "ValueError") =>
                    \E i \in 1..Len(enc.variables) :
                        enc.variables[i].variable.type \notin {Some("int"), Some("bool")})

\* after ensure_capacity(2), add_variable("x") and set_item_valuation(0,
\* {x: 5}) the list of x has one value of the two items, get_item_valuation(1)
\* raises, and validate() has raised the ValueError of the item count
C29_ShortListAfterAdd ==
    /\ arg.op = "items" /\ dec.op = "validate" /\ dec.calls = 4
    /\ enc.num_items = 2
    /\ Len(enc.variables) = 1
    /\ enc.variables[1].variable = [name |-> "x", domain |-> Some(<<Five>>), type |-> Some("int")]
    /\ enc.variables[1].values = <<Five>>
    /\ get_item_valuation(enc, 1).err = "IndexError"
    /\ dec.err = "ValueError"

\* ------------------------------------------- building a StructType
\* A behaviour of SpecBuild starts from a StructType without fields, calls
\* add_attribute at most MaxAttributes times and then pad_to_byte(None), and
\* packs a record of values of the declared types with struct_pack. The
\* StructType is in enc, what struct_pack returned in dec.

\* most attributes added to a struct type
MaxAttributes == 3

\* the types add_attribute is called with
BuildTypes == {"bool", "int", "double", "string", "rational"}

RECURSIVE TotalBits(_, _)
\* the loop of bits_to_pad: total_bits after the first i fields
TotalBits(fields, i) ==
    IF i = 0 THEN 0
    ELSE IF fields[i].kind = "padding" THEN TotalBits(fields, i - 1) + fields[i].padding
    ELSE IF fields[i].size = NoSize THEN 0
    ELSE TotalBits(fields, i - 1) + fields[i].size

bits_to_pad(self) == (8 - (TotalBits(self.fields, Len(self.fields)) % 8)) % 8

\* StructType.add_padding
StructType_add_padding(self, num_bits) ==
    IF ~(num_bits >= 0) THEN Raise("AssertionError")
    ELSE IF num_bits = 0 THEN Ok(self)
    ELSE Ok([self EXCEPT !.fields = Append(@, StructPadding(num_bits))])

pad_to_byte(self, num_bits) ==
    With(IF num_bits.none THEN bits_to_pad(self) ELSE num_bits.val, LAMBDA bits :
        IF ~(bits >= 0) THEN Raise("AssertionError")
        ELSE StructType_add_padding(self, bits))

\* a faulty variant of add_attribute: no padding before a string or a rational
add_attribute_unpadded(self, name, type) ==
    IF type \in {"string", "rational"}
    THEN Ok([self EXCEPT !.fields = Append(@, StructAttribute(name, type, NoSize))])
    ELSE IF type \notin {"bool", "int", "double"} THEN Raise("KeyError")
    ELSE Ok([self EXCEPT !.fields =
                Append(@, StructAttribute(name, type, IF type = "bool" THEN 1 ELSE 64))])

add_attribute(self, name, type) ==
    IF type \in {"string", "rational"}
    THEN Then(StructType_add_padding(self, bits_to_pad(self)), LAMBDA padded :
             Ok([padded EXCEPT !.fields = Append(@, StructAttribute(name, type, NoSize))]))
    ELSE IF type \notin {"bool", "int", "double"} THEN Raise("KeyError")
    ELSE Ok([self EXCEPT !.fields =
                Append(@, StructAttribute(name, type, IF type = "bool" THEN 1 ELSE 64))])

\* the number of attributes among the fields
NumAttributes(fields) == Len(SelectSeq(fields, LAMBDA f : f.kind = "attribute"))

BuildInit ==
    /\ pc = "building"
    /\ arg = [op |-> "build", type |-> "StructType", value |-> StructType(1, <<>>),
              rest |-> <<>>]
    /\ enc = arg.value
    /\ dec = None

\* struct_type.add_attribute(name, type)
AddAttribute ==
    /\ pc = "building" /\ arg.op = "build"
    /\ NumAttributes(enc.fields) < MaxAttributes
    /\ \E type \in BuildTypes :
           enc' = add_attribute(enc, FieldNames[NumAttributes(enc.fields) + 1], type).val
    /\ UNCHANGED <<pc, arg, dec>>

\* struct_type.pad_to_byte(None)
PadToByte ==
    /\ pc = "building" /\ arg.op = "build"
    /\ enc' = pad_to_byte(enc, None).val
    /\ pc' = "padded"
    /\ UNCHANGED <<arg, dec>>

\* struct_pack(struct_type, values) for a record of values of the declared types
StructPack ==
    /\ pc = "padded" /\ arg.op = "build"
    /\ \E values \in RecordsFrom(enc.fields, 1) :
           dec' = [err |-> struct_pack(enc.fields, values).err, values |-> values]
    /\ pc' = "packed"
    /\ UNCHANGED <<arg, enc>>

BuildNext == AddAttribute \/ PadToByte \/ StructPack

SpecBuild == BuildInit /\ [][BuildNext]_vars

\* C30: for any StructType built from an empty field list by any sequence
\* of add_attribute calls (types bool, int, double, string, rational)
\* followed by pad_to_byte(None), every string or rational attribute begins
\* at a byte boundary and the total size of the fixed-size fields and
\* paddings after the last variable-size attribute is a multiple of 8 bits,
\* so struct_pack of a conforming record never raises the buffer-not-empty
\* error.
C30_BuiltStructAligned ==
    arg.op = "build" =>
        /\ \A i \in 1..Len(enc.fields) :
               (enc.fields[i].kind = "attribute" /\ enc.fields[i].type \in {"string", "rational"})
                   => BitsPending(enc.fields, i - 1) = 0
        /\ pc \in {"padded", "packed"} => BitsPending(enc.fields, Len(enc.fields)) = 0
        /\ pc = "packed" => dec.err # "RuntimeError"

\* add_attribute of a bool, a string and a bool, then pad_to_byte(None), has
\* built bool, 7 bits, string, bool, 7 bits, and struct_pack has returned
C30_PaddedAroundString ==
    /\ arg.op = "build" /\ pc = "packed"
    /\ enc.fields = <<StructAttribute("a", "bool", 1), StructPadding(7),
                      StructAttribute("b", "string", NoSize),
                      StructAttribute("c", "bool", 1), StructPadding(7)>>
    /\ dec.err = ""

====
